---- MODULE Spec2Model ----
(***************************************************************************)
(* A model of the trade classification engine of sol-explain:             *)
(*   SimpleCache and SolanaDexTradeParser   (src/unnamed/part_006)        *)
(*   parseTradeFromTransactionSync and the batch helpers                  *)
(*                                          (src/unnamed/part_007)        *)
(*                                                                         *)
(* Amounts.  JavaScript numbers are modelled by integers counted in       *)
(* micro UI units (1e-6 of a token, 1e-6 SOL = 1000 lamports), so the     *)
(* division of lamports by 1e9 and the dust thresholds 0.000001 and       *)
(* 0.0001 become exact integer comparisons (1 and 100).  A price is the   *)
(* unreduced fraction n/d of two such integers; d = 0 stands for the      *)
(* Infinity/NaN a JavaScript division by zero yields.                     *)
(***************************************************************************)
EXTENDS Integers, Sequences, FiniteSets, TLC

VARIABLES
    cache,       \* SimpleCache.cache: the Map's entries in insertion order
    now,         \* Date.now()
    op,          \* the last operation performed and what it returned
    inserted,    \* history: keys passed to set() since construction / clear()
    pureSets,    \* history: only set() has been called since construction / clear()
    insertedAt,  \* history: key -> time of its last set(), -1 when never set
    expiredSeen, \* history: key -> a read past the TTL happened since its last set()
    tx,          \* the transaction on chain that is being classified
    call,        \* the classification call made: the function and its inputs
    out          \* what the call returned (Throw when it threw)

vars == <<cache, now, op, inserted, pureSets, insertedAt, expiredSeen, tx, call, out>>

(***************************************************************************)
(* Values                                                                  *)
(***************************************************************************)
\* JavaScript null, as returned by SimpleCache.get and by the parsers
Null == [kind |-> "null"]

(***************************************************************************)
(* Bounds of the model                                                     *)
(***************************************************************************)
\* capacity of the cache (constructor argument maxSize)
MaxSize == 2
\* time to live of an entry (constructor argument ttl), in clock ticks
Ttl == 1
\* the clock stops advancing here
MaxClock == 3
\* number of set() calls followed in one history: one more than fills the cache
MaxInserts == MaxSize + 1

\* keys (signatures) used with the stand-alone cache: always capacity + 1 of them
CacheKeys == 1..(MaxSize + 1)
\* the value the stand-alone cache stores for a key at a time
CacheValue(key, t) == [kind |-> "value", id |-> key, at |-> t]

(***************************************************************************)
(* SimpleCache                                                             *)
(***************************************************************************)
\* Map.has(key)
CacheHas(c, key) == \E i \in 1..Len(c) : c[i].key = key

\* Map.get(key): the entry, or Null
CacheItem(c, key) ==
    IF CacheHas(c, key)
    THEN c[CHOOSE i \in 1..Len(c) : c[i].key = key]
    ELSE Null

\* Map.delete(key)
CacheDelete(c, key) == SelectSeq(c, LAMBDA e : e.key # key)

\* Map.set(key, item): an existing key keeps its position, a new one goes last
MapSet(c, key, item) ==
    IF CacheHas(c, key)
    THEN [i \in 1..Len(c) |-> IF c[i].key = key THEN item ELSE c[i]]
    ELSE Append(c, item)

\* a slip in the expiry test: an entry exactly ttl old already counts as expired
ExpiredAtTtl(item, t) == t - item.timestamp >= Ttl

\* the expiry test of SimpleCache.get: Date.now() - item.timestamp > this.ttl
Expired(item, t) == t - item.timestamp > Ttl

\* SimpleCache.get(key): the value returned
CacheGetValue(c, key, t) ==
    LET item == CacheItem(c, key) IN
    IF item = Null THEN Null
    ELSE IF Expired(item, t) THEN Null
    ELSE item.value

\* SimpleCache.get(key): the cache afterwards (an expired entry is deleted)
CacheGetAfter(c, key, t) ==
    LET item == CacheItem(c, key) IN
    IF item = Null THEN c
    ELSE IF Expired(item, t) THEN CacheDelete(c, key)
    ELSE c

\* a slip in the "cache is full" test: evict only once the capacity is exceeded
CacheFullLate(c) == Len(c) > MaxSize

\* the "cache is full" test of SimpleCache.set: this.cache.size >= this.maxSize
CacheFull(c) == Len(c) >= MaxSize

\* SimpleCache.set(key, value): evict the first key when full, then Map.set
CacheSetAfter(c, key, value, t) ==
    LET evicted == IF CacheFull(c) /\ Len(c) > 0 THEN CacheDelete(c, c[1].key) ELSE c
    IN  MapSet(evicted, key, [key |-> key, value |-> value, timestamp |-> t])

(***************************************************************************)
(* Program constants                                                       *)
(***************************************************************************)
\* this.SOL_MINT
SOL_MINT == "So11111111111111111111111111111111111111112"

\* this.DEX_PROGRAMS
DEX_PROGRAMS ==
    [ JUPITER  |-> { "JUP6LkbZbjS1jKKwapdHNy74zcZ3tLUZoi5QNyVTaV4",
                     "JUP2jxvXaqu7NQY1GmNF4m1vodw12LVXYxbFL2uJvfo",
                     "JUP3c2Uh3WA4Ng34tw6kPd2G4C5BB21Xo36Je1s32Ph",
                     "JUP6i4ozu5ydDCnLiMogSckDPpbtr7BJ4FtzYWkb5Rk",
                     "JUP4Fb2cqiRUcaTd8t5VhYu6oV5E2hbN8FdY3YbwPEsu" },
      RAYDIUM  |-> { "675kPX9MHTjS2zt1qfr1NYHuzeLXfQM9H24wFSUt1Mp8",
                     "27haf8L6oxUeXrHrgEgsexjSY5hbVUWEmvv9Nyxg8vQv",
                     "CAMMCzo5YL8w4VFF8KVHrK22GGUsp5VTaW7grrKgrWqK" },
      ORCA     |-> { "9W959DqEETiGZocYWCQPaJ6sBmUzgfxXfqGeTEdp3aQP",
                     "whirLbMiicVdio4qvUfM5KAg6Ct8VwpYzGff3uctyCc",
                     "DjVE6JNiYqPL2QXyCUUh8rNjHrbz9hXHNYt99MQ59qw1" },
      PUMP_FUN |-> { "pAMMBay6oceH9fJKBRHGP5D4bD4sWpmSwMn52FMfXEA" },
      METEORA  |-> { "LBUZKhRxPF3XUpBCjp4YzTKgLccjZhTSDM9YuVaPwxo",
                     "Eo7WjKq67rjJQSZxS6z3YkapzY3eMj6Xy8X5EQVn5UWAi",
                     "24Uqj9JQxErmqU6wvJzKqJqJqJqJqJqJqJqJqJqJqJqJq" },
      DFLOW    |-> { } ]

\* this.DEX_PROGRAMS.PUMP_FUN[0]
PUMP_FUN_PROGRAM_ID == "pAMMBay6oceH9fJKBRHGP5D4bD4sWpmSwMn52FMfXEA"
\* this.DEX_PROGRAMS.RAYDIUM[0]
RAYDIUM_PROGRAM_ID == "675kPX9MHTjS2zt1qfr1NYHuzeLXfQM9H24wFSUt1Mp8"
\* a program that is no DEX (the SPL token program)
TOKEN_PROGRAM_ID == "TokenkegQfeZyiNwAJbNbGKPFXCWuBvf9Ss623VQ5DA"

\* the token dust threshold 0.000001, in micro units
TokenDust == 1
\* the threshold 0.0001 of analyzeSOLTokenTrade and parseGenericTransaction, in micro units
SmallChange == 100
\* the 1000000 lamports (0.001 SOL) of identifyDEX's structural heuristic, in micro SOL
HeuristicLamports == 1000
\* identifyDEX's structural heuristic: more than 3 instructions
HeuristicInstructions == 3
\* identifyDEX's structural heuristic: more than 10 accounts
HeuristicAccounts == 10
\* parseJupiterViaAPI: an input of less than 0.01 SOL is rejected, in micro SOL
ApiMinSol == 10000

(***************************************************************************)
(* Array helpers                                                           *)
(***************************************************************************)
\* Math.abs
Abs(x) == IF x < 0 THEN -x ELSE x

\* const name = value; ...rest of the block...
With(value, Rest(_)) == Rest(value)

\* Array.prototype.some
Some(seq, P(_)) == \E i \in 1..Len(seq) : P(seq[i])

\* Array.prototype.find, as the index of the first match (0 when none)
FindIndex(seq, P(_)) ==
    IF Some(seq, P)
    THEN CHOOSE i \in 1..Len(seq) : P(seq[i]) /\ \A j \in 1..(i - 1) : ~P(seq[j])
    ELSE 0

\* the sum of a sequence of numbers
RECURSIVE SumSeq(_)
SumSeq(seq) == IF seq = <<>> THEN 0 ELSE Head(seq) + SumSeq(Tail(seq))

\* reduce((sum, c) => sum + f(c), 0)
SumOver(seq, F(_)) == SumSeq([i \in 1..Len(seq) |-> F(seq[i])])

\* reduce((max, c) => f(c) > f(max) ? c : max, seq[0]): the first item of greatest f
MaxBy(seq, F(_)) ==
    seq[CHOOSE i \in 1..Len(seq) :
            /\ \A j \in 1..Len(seq) : F(seq[j]) <= F(seq[i])
            /\ \A j \in 1..(i - 1) : F(seq[j]) < F(seq[i])]

\* a sequence without its repetitions: each element once, at its first place
RECURSIVE Dedup(_)
Dedup(seq) ==
    IF seq = <<>> THEN <<>>
    ELSE <<Head(seq)>> \o Dedup(SelectSeq(Tail(seq), LAMBDA e : e # Head(seq)))

\* the keys of a Map filled by visiting seq in order: each key once, first visit first
KeysInOrder(seq, K(_)) == Dedup([i \in 1..Len(seq) |-> K(seq[i])])

\* Map.get after seq.forEach(e => map.set(key(e), e)): the last item with the key
LastWithKey(seq, K(_), key) ==
    seq[CHOOSE i \in 1..Len(seq) :
            K(seq[i]) = key /\ \A j \in (i + 1)..Len(seq) : K(seq[j]) # key]

(***************************************************************************)
(* Balance-change extractors                                               *)
(***************************************************************************)
\* `${owner}-${mint}`
OwnerMintKey(b) == <<b.owner, b.mint>>

\* if (!x.owner || !x.mint) return;   -- the entries the loops look at
Keyed(balances) == SelectSeq(balances, LAMBDA b : b.owner # "" /\ b.mint # "")

\* preMap.get(key) / postMap.get(key): the amount of the entry, 0 when there is none
MapAmount(balances, key) ==
    IF Some(Keyed(balances), LAMBDA b : OwnerMintKey(b) = key)
    THEN LastWithKey(Keyed(balances), OwnerMintKey, key).amount
    ELSE 0

\* whether preMap / postMap has the key
MapHas(balances, key) == Some(Keyed(balances), LAMBDA b : OwnerMintKey(b) = key)

\* first loop: a post entry whose amount differs from the pre amount by more than the dust
ChangedPost(pre, b) == Abs(b.amount - MapAmount(pre, OwnerMintKey(b))) > TokenDust

\* second loop: a pre entry with a balance whose post entry is absent or empty
Disappeared(post, b) ==
    /\ b.amount > TokenDust
    /\ (~MapHas(post, OwnerMintKey(b)) \/ MapAmount(post, OwnerMintKey(b)) < TokenDust)

\* third loop: a post entry with a balance and no pre entry
Appeared(pre, b) == b.amount > TokenDust /\ ~MapHas(pre, OwnerMintKey(b))

\* the entry the first loop stores for a key: that of the last post entry that changed
ChangedEntry(pre, post, key) ==
    With(LastWithKey(SelectSeq(Keyed(post), LAMBDA x : ChangedPost(pre, x)),
                     OwnerMintKey, key), LAMBDA b :
    With(MapAmount(pre, key), LAMBDA preAmount :
        [mint |-> b.mint, owner |-> b.owner, preAmount |-> preAmount,
         postAmount |-> b.amount, change |-> b.amount - preAmount,
         decimals |-> b.decimals]))

\* the entry the second loop stores: that of the first pre entry that disappeared
DisappearedEntry(pre, post, key) ==
    With(SelectSeq(Keyed(pre),
                   LAMBDA x : OwnerMintKey(x) = key /\ Disappeared(post, x))[1], LAMBDA b :
        [mint |-> b.mint, owner |-> b.owner, preAmount |-> b.amount,
         postAmount |-> 0, change |-> -b.amount, decimals |-> b.decimals])

\* the entry the third loop stores: that of the first post entry that appeared
AppearedEntry(pre, post, key) ==
    With(SelectSeq(Keyed(post),
                   LAMBDA x : OwnerMintKey(x) = key /\ Appeared(pre, x))[1], LAMBDA b :
        [mint |-> b.mint, owner |-> b.owner, preAmount |-> 0,
         postAmount |-> b.amount, change |-> b.amount, decimals |-> b.decimals])

\* a slip: the second and third loops never find the key already stored
NeverHasKey(keys, key) == FALSE

\* changesSet.has(key), for the keys stored so far
HasKey(keys, key) == \E i \in 1..Len(keys) : keys[i] = key

\* the keys the first loop stores, in insertion order
FirstLoopKeys(pre, post) ==
    KeysInOrder(SelectSeq(Keyed(post), LAMBDA b : ChangedPost(pre, b)), OwnerMintKey)

\* the keys the second loop adds to those of the first
SecondLoopKeys(pre, post, k1) ==
    KeysInOrder(SelectSeq(Keyed(pre),
                    LAMBDA b : Disappeared(post, b) /\ ~HasKey(k1, OwnerMintKey(b))),
                OwnerMintKey)

\* the keys the third loop adds to those of the first two
ThirdLoopKeys(pre, post, k1, k2) ==
    KeysInOrder(SelectSeq(Keyed(post),
                    LAMBDA b : /\ Appeared(pre, b)
                               /\ ~HasKey(k1, OwnerMintKey(b))
                               /\ ~HasKey(k2, OwnerMintKey(b))),
                OwnerMintKey)

\* parseTokenBalanceChanges(meta): the values of changesSet in insertion order
ParseTokenBalanceChanges(t) ==
    IF ~t.hasMeta THEN <<>>
    ELSE
    With(t.preTokenBalances, LAMBDA pre :
    With(t.postTokenBalances, LAMBDA post :
    With(FirstLoopKeys(pre, post), LAMBDA k1 :
    With(SecondLoopKeys(pre, post, k1), LAMBDA k2 :
    With(ThirdLoopKeys(pre, post, k1, k2), LAMBDA k3 :
        [i \in 1..Len(k1) |-> ChangedEntry(pre, post, k1[i])]
        \o [i \in 1..Len(k2) |-> DisappearedEntry(pre, post, k2[i])]
        \o [i \in 1..Len(k3) |-> AppearedEntry(pre, post, k3[i])])))))

\* [...(message.accountKeys || []), ...writable, ...readonly]
AllAccountKeys(t) ==
    t.accountKeys \o [i \in 1..Len(t.loadedAddresses) |->
                         [pubkey |-> t.loadedAddresses[i], isObject |-> FALSE,
                          signer |-> "undefined"]]

\* the signer flag parseSOLBalanceChanges gives the account at a (0-based) index
IsSignerAt(t, index) ==
    With(AllAccountKeys(t), LAMBDA all :
    With(index < t.numRequiredSignatures, LAMBDA byIndex :
        IF index + 1 <= Len(all)
        THEN With(all[index + 1], LAMBDA accountKey :
                 IF accountKey.isObject /\ accountKey.signer # "undefined"
                 THEN accountKey.signer = "true"
                 ELSE byIndex)
        ELSE \* no account key at the index: the loadedIndex branch never matches,
             \* as every loaded address is already in allAccountKeys
             byIndex))

\* the address parseSOLBalanceChanges gives the account at a (0-based) index
AddressAt(t, index) ==
    With(AllAccountKeys(t), LAMBDA all :
        IF index + 1 <= Len(all) THEN all[index + 1].pubkey
        ELSE "account_" \o ToString(index))

\* whether parseSOLBalanceChanges(transaction) throws a TypeError
ParseSOLBalanceChangesThrows(t) ==
    \/ ~t.hasTransaction
    \/ /\ t.hasMeta /\ t.hasPostBalances
       /\ \/ ~t.hasMessage
          \/ ~t.hasPreBalances /\ Len(t.postBalances) > 0

\* whether the loop of parseSOLBalanceChanges records the account: preBalance !== postBalance
SolChanged(t, i) == t.preBalances[i] # t.postBalances[i]

\* parseSOLBalanceChanges(transaction), when it does not throw
ParseSOLBalanceChanges(t) ==
    IF ~t.hasMeta \/ ~t.hasPostBalances THEN <<>>
    ELSE
    With(SelectSeq([i \in 1..Len(t.postBalances) |-> i], LAMBDA i : SolChanged(t, i)),
         LAMBDA idx :
        [n \in 1..Len(idx) |->
            [account |-> AddressAt(t, idx[n] - 1),
             preBalance |-> t.preBalances[idx[n]],
             postBalance |-> t.postBalances[idx[n]],
             change |-> t.postBalances[idx[n]] - t.preBalances[idx[n]],
             isSigner |-> IsSignerAt(t, idx[n] - 1)]])

(***************************************************************************)
(* Log text.  The code only asks whether the lower-cased, joined log text  *)
(* includes fixed keywords; a log line is one of the lines below and       *)
(* LineIncludes tells which keywords its lower-cased text contains.        *)
(***************************************************************************)
LogPumpInvoke == "Program pAMMBay6oceH9fJKBRHGP5D4bD4sWpmSwMn52FMfXEA invoke [2]"
LogSell == "Program log: Instruction: Sell"
LogBuy == "Program log: Instruction: Buy"
LogDeposit == "Program log: Instruction: Deposit"
LogMeteora == "Program log: Meteora DLMM swap"
LogDflow == "Program log: DFlow aggregator fill"
LogTransfer == "Program log: Instruction: Transfer"

\* line.toLowerCase().includes(keyword)
LineIncludes(line, keyword) ==
    keyword \in
      CASE line = LogPumpInvoke -> {"pammbay6oceh9fjkbrhgp5d4bd4swpmswmn52fmfxea", "pamm"}
        [] line = LogSell       -> {"instruction: sell"}
        [] line = LogBuy        -> {"instruction: buy"}
        [] line = LogDeposit    -> {"deposit"}
        [] line = LogMeteora    -> {"meteora", "dlmm"}
        [] line = LogDflow      -> {"dflow", "aggregator"}
        [] OTHER                -> {}

\* logMessages.join(' ').toLowerCase().includes(keyword)
LogIncludes(t, keyword) ==
    t.hasMeta /\ \E i \in 1..Len(t.logMessages) : LineIncludes(t.logMessages[i], keyword)

\* PUMP_FUN_PROGRAM_ID.toLowerCase()
PumpIdLower == "pammbay6oceh9fjkbrhgp5d4bd4swpmswmn52fmfxea"

(***************************************************************************)
(* identifyDEX                                                             *)
(***************************************************************************)
\* getProgramId(ix, accountKeys): "" stands for null
GetProgramId(ix, accountKeys) ==
    IF ix.programId # "" THEN ix.programId
    ELSE IF ix.programIdIndex >= 0 /\ ix.programIdIndex < Len(accountKeys)
         THEN accountKeys[ix.programIdIndex + 1].pubkey
         ELSE ""

\* the program ids of a list of instructions, nulls dropped
ProgramIdsOf(instructions, accountKeys) ==
    SelectSeq([i \in 1..Len(instructions) |-> GetProgramId(instructions[i], accountKeys)],
              LAMBDA id : id # "")

\* meta?.innerInstructions || [], flattened
InnerInstructions(t) == IF t.hasMeta THEN t.innerInstructions ELSE <<>>

\* [...innerProgramIds, ...mainProgramIds]
ProgramIds(t) ==
    ProgramIdsOf(InnerInstructions(t), t.accountKeys)
        \o ProgramIdsOf(t.instructions, t.accountKeys)

\* programs.some(program => programIds.includes(program))
DexMatches(t, dex) ==
    With(ProgramIds(t), LAMBDA programIds :
        \E i \in 1..Len(programIds) : programIds[i] \in DEX_PROGRAMS[dex])

\* priorityDEXs
PriorityDEXs == <<"PUMP_FUN", "RAYDIUM", "ORCA", "JUPITER", "METEORA", "DFLOW">>

\* dex.toLowerCase()
DexLower(dex) ==
    CASE dex = "PUMP_FUN" -> "pump_fun" [] dex = "RAYDIUM" -> "raydium"
      [] dex = "ORCA" -> "orca"         [] dex = "JUPITER" -> "jupiter"
      [] dex = "METEORA" -> "meteora"   [] dex = "DFLOW" -> "dflow"

\* hasSolChanges of the structural heuristic
HasSolChanges(t) ==
    /\ t.hasMeta /\ t.hasPostBalances
    /\ \E i \in 1..Len(t.postBalances) :
          Abs(t.postBalances[i] - (IF t.hasPreBalances /\ i <= Len(t.preBalances)
                                   THEN t.preBalances[i] ELSE 0)) > HeuristicLamports

\* the structural heuristic of identifyDEX
LooksRouted(t) ==
    /\ Len(t.instructions) > HeuristicInstructions
    /\ Len(t.accountKeys) > HeuristicAccounts
    /\ t.hasMeta /\ Len(t.postTokenBalances) > 0
    /\ HasSolChanges(t)

\* whether identifyDEX(transaction) throws a TypeError
IdentifyDEXThrows(t) == ~t.hasTransaction \/ ~t.hasMessage \/ ~t.hasInstructions

\* the program-id rule of identifyDEX: the first DEX of priorityDEXs that matches
IdentifyByProgramId(t) ==
    With(FindIndex(PriorityDEXs, LAMBDA dex : DexMatches(t, dex)), LAMBDA hit :
        IF hit = 0 THEN "" ELSE DexLower(PriorityDEXs[hit]))

\* the log-text rules of identifyDEX
IdentifyByLogs(t) ==
    IF \/ LogIncludes(t, PumpIdLower)
       \/ LogIncludes(t, "instruction: sell") /\ LogIncludes(t, "pamm")
    THEN "pump_fun"
    ELSE IF LogIncludes(t, "meteora") \/ LogIncludes(t, "dlmm") THEN "meteora"
    ELSE IF LogIncludes(t, "dflow") \/ LogIncludes(t, "aggregator") THEN "dflow"
    ELSE ""

\* identifyDEX(transaction), when it does not throw
IdentifyDEX(t) ==
    With(IdentifyByProgramId(t), LAMBDA byProgramId :
    With(IdentifyByLogs(t), LAMBDA byLogs :
        IF byProgramId # "" THEN byProgramId
        ELSE IF byLogs # "" THEN byLogs
        ELSE IF LooksRouted(t) THEN "jupiter"
        ELSE "unknown"))

(***************************************************************************)
(* Outcomes                                                                *)
(***************************************************************************)
\* a thrown exception
Throw == [kind |-> "throw"]

\* a JavaScript number a / b
Num(a, b) == [k |-> "number", n |-> a, d |-> b]
\* a price that is null
PriceNull == [k |-> "null"]
\* a price that is undefined
PriceUndefined == [k |-> "undefined"]

\* { mint, symbol, amount, decimals }
Token(mint, symbol, amount, decimals) ==
    [mint |-> mint, symbol |-> symbol, amount |-> amount, decimals |-> decimals]

\* a trade object; fields a parser does not set are "undefined"
Trade(type, sold, bought, price, holder) ==
    [kind |-> "outcome", type |-> type, soldToken |-> sold, boughtToken |-> bought,
     price |-> price, holderAddress |-> holder,
     dex |-> "undefined", source |-> "undefined", note |-> "undefined",
     fee |-> "undefined", signature |-> "undefined"]

\* inferTradeType(inputMint, outputMint)
InferTradeType(inputMint, outputMint) ==
    IF inputMint = SOL_MINT THEN "buy"
    ELSE IF outputMint = SOL_MINT THEN "sell"
    ELSE "swap"

\* calculatePrice(sold, bought)
CalculatePrice(sold, bought) ==
    IF Abs(sold.amount) = 0 THEN Num(0, 1)
    ELSE Num(bought.amount, Abs(sold.amount))

(***************************************************************************)
(* analyzeSOLTokenTrade                                                    *)
(***************************************************************************)
\* the filter that drops wrapped-SOL deltas and token dust
SignificantTokenChanges(tokenChanges) ==
    SelectSeq(tokenChanges, LAMBDA c :
        ~(c.mint = SOL_MINT \/ c.mint = "SOL") /\ Abs(c.change) > TokenDust)

\* the filter that drops small SOL changes
SignificantSolChanges(solChanges) ==
    SelectSeq(solChanges, LAMBDA c : Abs(c.change) > SmallChange)

\* new Set(changes.map(change => change.account))
Accounts(changes) == {changes[i].account : i \in 1..Len(changes)}

\* the token changes analyzeSOLTokenTrade attributes to the user
EffectiveTokenChanges(tokenChanges, solChanges) ==
    With(SignificantSolChanges(solChanges), LAMBDA sigSol :
    With(SignificantTokenChanges(tokenChanges), LAMBDA sigTok :
    With(SelectSeq(sigSol, LAMBDA c : c.change < 0), LAMBDA spent :
    With(SelectSeq(sigSol, LAMBDA c : c.change > 0), LAMBDA received :
    With(Accounts(SelectSeq(sigSol, LAMBDA c : c.isSigner)), LAMBDA signers :
    With(SelectSeq(sigTok, LAMBDA c :
            \/ c.change > 0 /\ (c.owner \in Accounts(spent) \/ c.owner \in signers)
            \/ c.change < 0 /\ (c.owner \in Accounts(received) \/ c.owner \in signers)),
         LAMBDA user :
    With(IF user = <<>> /\ signers # {}
         THEN SelectSeq(sigTok, LAMBDA c : c.owner \in signers)
         ELSE user, LAMBDA bySigner :
    With(SelectSeq(sigTok, LAMBDA c : c.change > 0), LAMBDA positive :
    With(IF bySigner = <<>> /\ spent # <<>> /\ positive # <<>>
         THEN <<MaxBy(positive, LAMBDA c : Abs(c.change))>>
         ELSE bySigner, LAMBDA byPositive :
    With(KeysInOrder(sigTok, LAMBDA c : c.mint), LAMBDA mints :
        IF byPositive = <<>> /\ sigTok # <<>>
        THEN [i \in 1..Len(mints) |->
                 MaxBy(SelectSeq(sigTok, LAMBDA c : c.mint = mints[i]),
                       LAMBDA c : Abs(c.change))]
        ELSE byPositive))))))))))

\* tokenChangeMap: per mint, in insertion order, the summed change
TokenChangeTotals(effective) ==
    With(KeysInOrder(effective, LAMBDA c : c.mint), LAMBDA mints :
        [i \in 1..Len(mints) |->
            With(SelectSeq(effective, LAMBDA c : c.mint = mints[i]), LAMBDA ofMint :
                [mint |-> mints[i], decimals |-> ofMint[1].decimals,
                 totalChange |-> SumOver(ofMint, LAMBDA c : c.change)])])

\* the holder of a buy (positive = TRUE) or of a sell
TradeHolder(effective, solChanges, mint, positive, fallback) ==
    With(SelectSeq(effective, LAMBDA c :
            c.mint = mint /\ (IF positive THEN c.change > 0 ELSE c.change < 0)),
         LAMBDA mine :
    With(FindIndex(mine, LAMBDA c :
            Some(solChanges, LAMBDA sc : sc.account = c.owner /\ sc.isSigner)),
         LAMBDA signed :
    With(FindIndex(solChanges, LAMBDA sc : sc.isSigner), LAMBDA anySigner :
    With(FindIndex(fallback, LAMBDA sc : sc.isSigner), LAMBDA fbSigner :
        IF mine # <<>>
        THEN (IF signed # 0 THEN mine[signed].owner ELSE mine[1].owner)
        ELSE IF anySigner # 0 THEN solChanges[anySigner].account
        ELSE IF fbSigner # 0 THEN fallback[fbSigner].account
        ELSE IF fallback # <<>> THEN fallback[1].account
        ELSE "null"))))

\* the object analyzeSOLTokenTrade returns for a buy
BuyOutcome(totalSolSpent, tokenBought, holder) ==
    Trade("buy",
          Token(SOL_MINT, "SOL", totalSolSpent, 9),
          Token(tokenBought.mint, "Token", tokenBought.totalChange, tokenBought.decimals),
          Num(totalSolSpent, tokenBought.totalChange), holder)

\* the object analyzeSOLTokenTrade returns for a sell
SellOutcome(totalSolReceived, tokenSold, holder) ==
    Trade("sell",
          Token(tokenSold.mint, "Token", Abs(tokenSold.totalChange), tokenSold.decimals),
          Token(SOL_MINT, "SOL", totalSolReceived, 9),
          Num(totalSolReceived, Abs(tokenSold.totalChange)), holder)

\* analyzeSOLTokenTrade(tokenChanges, solChanges).  The sell branch's last
\* holder fallback reads an undeclared `transaction`, but is never entered:
\* a sold token always has an owner among the effective changes.
AnalyzeSOLTokenTrade(tokenChanges, solChanges) ==
    With(SignificantSolChanges(solChanges), LAMBDA sigSol :
    With(SelectSeq(sigSol, LAMBDA c : c.change < 0), LAMBDA spent :
    With(SelectSeq(sigSol, LAMBDA c : c.change > 0), LAMBDA received :
    With(EffectiveTokenChanges(tokenChanges, solChanges), LAMBDA effective :
    With(TokenChangeTotals(effective), LAMBDA totals :
    With(SumOver(spent, LAMBDA c : Abs(c.change)), LAMBDA totalSolSpent :
    With(SelectSeq(totals, LAMBDA tk : tk.totalChange > 0), LAMBDA tokensBought :
    With(SumOver(received, LAMBDA c : c.change), LAMBDA totalSolReceived :
    With(SelectSeq(totals, LAMBDA tk : tk.totalChange < 0), LAMBDA tokensSold :
        IF totalSolSpent > 0 /\ tokensBought # <<>>
        THEN With(MaxBy(tokensBought, LAMBDA tk : tk.totalChange), LAMBDA tokenBought :
                 BuyOutcome(totalSolSpent, tokenBought,
                            TradeHolder(effective, solChanges, tokenBought.mint, TRUE,
                                        spent)))
        ELSE IF totalSolReceived > 0 /\ tokensSold # <<>>
        THEN With(MaxBy(tokensSold, LAMBDA tk : Abs(tk.totalChange)), LAMBDA tokenSold :
                 SellOutcome(totalSolReceived, tokenSold,
                             TradeHolder(effective, solChanges, tokenSold.mint, FALSE,
                                         received)))
        ELSE Null)))))))))

(***************************************************************************)
(* The parsers                                                             *)
(***************************************************************************)
\* { ...tradeInfo, dex, source }
Tagged(trade, dex, source) == [trade EXCEPT !.dex = dex, !.source = source]

\* if (tradeInfo) return { ...tradeInfo, dex, source }; return null;  -- a throw is passed on
TaggedIfTrade(tradeInfo, dex, source) ==
    IF tradeInfo.kind = "outcome" THEN Tagged(tradeInfo, dex, source) ELSE tradeInfo

\* analyzeSOLTokenTrade(parseTokenBalanceChanges(meta), parseSOLBalanceChanges(transaction))
AnalyzeTransaction(t) ==
    IF ParseSOLBalanceChangesThrows(t) THEN Throw
    ELSE AnalyzeSOLTokenTrade(ParseTokenBalanceChanges(t), ParseSOLBalanceChanges(t))

\* parseRaydiumTransaction(transaction)
ParseRaydiumTransaction(t) ==
    IF ~t.hasTransaction \/ ~t.hasMessage \/ ~t.hasInstructions THEN Throw
    ELSE TaggedIfTrade(AnalyzeTransaction(t), "raydium", "raydium_parser")

\* parseOrcaTransaction(transaction)
ParseOrcaTransaction(t) ==
    IF ~t.hasTransaction \/ ~t.hasMessage \/ ~t.hasInstructions THEN Throw
    ELSE TaggedIfTrade(AnalyzeTransaction(t), "orca", "orca_parser")

\* the swap of soldToken and boughtToken the Pump.fun parser makes when the
\* log text names the other direction
Flipped(tradeInfo, type) ==
    [tradeInfo EXCEPT !.soldToken = tradeInfo.boughtToken,
                      !.boughtToken = tradeInfo.soldToken,
                      !.type = type,
                      !.price = Num(tradeInfo.soldToken.amount, tradeInfo.boughtToken.amount)]

\* a slip: the log text is not consulted, the direction of the deltas stays
DirectionFromDeltas(t, tradeInfo) == tradeInfo

\* the direction override of parsePumpFunTransaction
PumpDirection(t, tradeInfo) ==
    LET isSellFromLog == LogIncludes(t, "instruction: sell") \/ LogIncludes(t, "instruction sell")
        isBuyFromLog == LogIncludes(t, "instruction: buy") \/ LogIncludes(t, "instruction buy")
    IN  IF tradeInfo.kind # "outcome" THEN tradeInfo
        ELSE IF isSellFromLog /\ tradeInfo.type = "buy" THEN Flipped(tradeInfo, "sell")
        ELSE IF isBuyFromLog /\ tradeInfo.type = "sell" THEN Flipped(tradeInfo, "buy")
        ELSE tradeInfo

\* parsePumpFunTransaction(transaction)
ParsePumpFunTransaction(t) ==
    IF ~t.hasTransaction \/ ~t.hasMessage \/ ~t.hasInstructions THEN Throw
    ELSE
    LET isPump(ix) == GetProgramId(ix, t.accountKeys) = PUMP_FUN_PROGRAM_ID
        mainPump == SelectSeq(t.instructions, isPump)
        innerPump == SelectSeq(InnerInstructions(t), isPump)
    IN  IF mainPump = <<>> /\ innerPump = <<>> /\ ~LogIncludes(t, PumpIdLower) THEN Null
        ELSE TaggedIfTrade(PumpDirection(t, AnalyzeTransaction(t)),
                           "pump_fun_amm", "pump_fun_parser")

\* liquidityOperations.some(op => text.includes(op)), for a parsed instruction type
IsLiquidityType(ptype) ==
    ptype \in {"rebalance_liquidity", "rebalance", "add_liquidity", "remove_liquidity",
               "deposit", "withdraw"}

\* the liquidity-operation test of parseGenericTransaction
IsLiquidityOperation(t) ==
    \/ \E operation \in {"rebalance_liquidity", "rebalance", "add_liquidity",
                         "remove_liquidity", "deposit", "withdraw"} : LogIncludes(t, operation)
    \/ /\ t.hasTransaction /\ t.hasMessage /\ t.hasInstructions
       /\ Some(t.instructions, LAMBDA ix : IsLiquidityType(ix.parsedType))
    \/ Some(InnerInstructions(t), LAMBDA ix : IsLiquidityType(ix.parsedType))

\* accountKeys.find(acc => typeof acc === 'object' && acc.signer), "null" when none
FirstSignerKey(t) ==
    With(IF t.hasTransaction /\ t.hasMessage THEN t.accountKeys ELSE <<>>, LAMBDA keys :
    With(FindIndex(keys, LAMBDA acc : acc.isObject /\ acc.signer = "true"), LAMBDA hit :
        IF hit = 0 THEN "null" ELSE keys[hit].pubkey))

\* getHolderAddress() of parseGenericTransaction
GetHolderAddress(t, solChanges) ==
    With(FindIndex(solChanges, LAMBDA c : c.isSigner), LAMBDA signer :
        IF signer # 0 THEN solChanges[signer].account
        ELSE IF solChanges # <<>> THEN solChanges[1].account
        ELSE FirstSignerKey(t))

\* the token changes the token-to-token test of parseGenericTransaction looks at
SwapTokenChanges(tokenChanges, solChanges) ==
    With(SignificantTokenChanges(tokenChanges), LAMBDA sigTok :
    With(Accounts(SelectSeq(solChanges, LAMBDA c : c.isSigner)), LAMBDA signers :
    With(SelectSeq(sigTok, LAMBDA c : c.owner \in signers), LAMBDA user :
        IF user # <<>> \/ sigTok = <<>> THEN user
        ELSE With(MaxBy(KeysInOrder(sigTok, LAMBDA c : c.owner),
                        LAMBDA owner :
                            SumOver(SelectSeq(sigTok, LAMBDA c : c.owner = owner),
                                    LAMBDA c : Abs(c.change))),
                  LAMBDA maxOwner : SelectSeq(sigTok, LAMBDA c : c.owner = maxOwner)))))

\* the token-to-token outcome of parseGenericTransaction, Null when the test fails
GenericSwap(tokenChanges, solChanges, dex, holderAddress) ==
    With(SwapTokenChanges(tokenChanges, solChanges), LAMBDA effective :
    With(SelectSeq(effective, LAMBDA c : c.change < 0), LAMBDA tokenSold :
    With(SelectSeq(effective, LAMBDA c : c.change > 0), LAMBDA tokenBought :
        IF tokenSold # <<>> /\ tokenBought # <<>>
        THEN With(MaxBy(tokenSold, LAMBDA c : Abs(c.change)), LAMBDA maxSold :
             With(MaxBy(tokenBought, LAMBDA c : Abs(c.change)), LAMBDA maxBought :
                 IF maxSold.mint # SOL_MINT /\ maxBought.mint # SOL_MINT
                 THEN [Trade("swap",
                             Token(maxSold.mint, "Token", Abs(maxSold.change), maxSold.decimals),
                             Token(maxBought.mint, "Token", maxBought.change, maxBought.decimals),
                             Num(maxBought.change, Abs(maxSold.change)),
                             effective[1].owner)
                         EXCEPT !.dex = dex, !.source = "generic_parser",
                                !.note = "token-to-token"]
                 ELSE Null))
        ELSE Null)))

\* allChanges of parseGenericTransaction, small changes filtered out
SignificantChanges(tokenChanges, solChanges) ==
    SelectSeq(
        [i \in 1..Len(tokenChanges) |->
            [type |-> "token", mint |-> tokenChanges[i].mint,
             amount |-> tokenChanges[i].change, decimals |-> tokenChanges[i].decimals]]
        \o [i \in 1..Len(solChanges) |->
            [type |-> "sol", mint |-> SOL_MINT,
             amount |-> solChanges[i].change, decimals |-> 9]],
        LAMBDA item : Abs(item.amount) > SmallChange)

\* the object parseGenericTransaction builds from a sold and a bought change
PairOutcome(sold, bought, dex, holderAddress, note) ==
    [Trade(InferTradeType(sold.mint, bought.mint),
           Token(sold.mint, IF sold.mint = SOL_MINT THEN "SOL" ELSE "Token",
                 Abs(sold.amount), sold.decimals),
           Token(bought.mint, IF bought.mint = SOL_MINT THEN "SOL" ELSE "Token",
                 bought.amount, bought.decimals),
           CalculatePrice(sold, bought), holderAddress)
       EXCEPT !.dex = dex, !.source = "generic_parser", !.note = note]

\* a variant of the last rules: a lone change is reported as a transfer
GenericPairOrTransfer(tokenChanges, solChanges, dex, holderAddress) ==
    With(SignificantChanges(tokenChanges, solChanges), LAMBDA significant :
        IF Len(significant) = 1
        THEN [PairOutcome(significant[1], significant[1], dex, holderAddress, "undefined")
                EXCEPT !.type = "transfer"]
        ELSE Null)

\* the last two rules of parseGenericTransaction: one sold and one bought change,
\* or the largest sold and the largest bought change
GenericPair(tokenChanges, solChanges, dex, holderAddress) ==
    With(SignificantChanges(tokenChanges, solChanges), LAMBDA significant :
    With(SelectSeq(significant, LAMBDA item : item.amount < 0), LAMBDA sold :
    With(SelectSeq(significant, LAMBDA item : item.amount > 0), LAMBDA bought :
        IF Len(sold) = 1 /\ Len(bought) = 1
        THEN PairOutcome(sold[1], bought[1], dex, holderAddress, "undefined")
        ELSE IF sold # <<>> /\ bought # <<>>
        THEN With(MaxBy(sold, LAMBDA item : Abs(item.amount)), LAMBDA maxSold :
             With(MaxBy(bought, LAMBDA item : Abs(item.amount)), LAMBDA maxBought :
                 LET isSOLTokenTrade ==
                         \/ maxSold.mint = "SOL" /\ maxBought.type = "token"
                         \/ maxSold.type = "token" /\ maxBought.mint = "SOL"
                 IN  IF isSOLTokenTrade
                     THEN PairOutcome(maxSold, maxBought, dex, holderAddress,
                                      "multiple changes")
                     ELSE Null))
        ELSE Null)))

\* parseGenericTransaction(transaction, dex)
ParseGenericTransaction(t, dex) ==
    IF IsLiquidityOperation(t) THEN Null
    ELSE IF ParseSOLBalanceChangesThrows(t) THEN Throw
    ELSE
    With(ParseTokenBalanceChanges(t), LAMBDA tokenChanges :
    With(ParseSOLBalanceChanges(t), LAMBDA solChanges :
    With(GetHolderAddress(t, solChanges), LAMBDA holderAddress :
    With(GenericSwap(tokenChanges, solChanges, dex, holderAddress), LAMBDA swap :
    With(AnalyzeSOLTokenTrade(tokenChanges, solChanges), LAMBDA solTokenTrade :
        IF swap # Null THEN swap
        ELSE IF solTokenTrade # Null
        THEN Tagged([solTokenTrade EXCEPT !.holderAddress =
                        IF @ = "null" THEN holderAddress ELSE @],
                    dex, "generic_parser")
        ELSE GenericPair(tokenChanges, solChanges, dex, holderAddress))))))

\* parseJupiterTransaction(transaction)
ParseJupiterTransaction(t) ==
    With(ParseGenericTransaction(t, "jupiter"), LAMBDA tradeInfo :
        IF tradeInfo.kind = "outcome"
        THEN [tradeInfo EXCEPT !.source = "jupiter_transaction"]
        ELSE tradeInfo)

\* the switch on dexType of parseTrade
ParseByDex(t, dexType) ==
    CASE dexType = "jupiter"  -> ParseJupiterTransaction(t)
      [] dexType = "raydium"  -> ParseRaydiumTransaction(t)
      [] dexType = "orca"     -> ParseOrcaTransaction(t)
      [] dexType = "pump_fun" -> ParsePumpFunTransaction(t)
      [] OTHER                -> ParseGenericTransaction(t, "unknown")

\* the switch on dexType of parseTradeFromTransactionSync
ParseByDexSync(t, dexType) ==
    CASE dexType = "jupiter"  -> ParseJupiterTransaction(t)
      [] dexType = "raydium"  -> ParseRaydiumTransaction(t)
      [] dexType = "orca"     -> ParseOrcaTransaction(t)
      [] dexType = "pump_fun" -> ParsePumpFunTransaction(t)
      [] dexType = "meteora"  -> ParseGenericTransaction(t, "Meteora DLMM")
      [] dexType = "dflow"    -> ParseGenericTransaction(t, "DFlow Aggregator")
      [] OTHER                -> ParseGenericTransaction(t, "unknown")

(***************************************************************************)
(* parseJupiterViaAPI                                                      *)
(***************************************************************************)
\* no usable answer of the external API: a timeout, a non-2xx status, a
\* network error, or a body without inputMint / outputMint
NoApiData == [kind |-> "none"]

\* parseJupiterViaAPI(signature), given the API's answer.  Amounts are
\* data.inputAmount / 10^6 and data.outputAmount / 10^6 in micro units.
ParseJupiterViaAPI(data) ==
    IF data.kind = "none" THEN Null
    ELSE IF data.inputAmount <= 0 \/ data.outputAmount <= 0 THEN Null
    ELSE IF data.inputMint = SOL_MINT /\ data.inputAmount < ApiMinSol THEN Null
    ELSE [Trade(InferTradeType(data.inputMint, data.outputMint),
                Token(data.inputMint, "Unknown", data.inputAmount, 6),
                Token(data.outputMint, "Unknown", data.outputAmount, 6),
                data.price, "null")
            EXCEPT !.dex = "jupiter", !.source = "jupiter_api", !.fee = data.fee]

(***************************************************************************)
(* parseTrade                                                              *)
(***************************************************************************)
\* no transaction: getParsedTransaction returned null or rejected
NoTransaction == [kind |-> "none"]

\* the holder parseTrade gives an API outcome that has none; Throw when
\* parseSOLBalanceChanges throws
BackfilledHolder(t) ==
    With(FirstSignerKey(t), LAMBDA signerKey :
        IF signerKey # "null" THEN signerKey
        ELSE IF ParseSOLBalanceChangesThrows(t) THEN "throw"
        ELSE With(ParseSOLBalanceChanges(t), LAMBDA solChanges :
             With(FindIndex(solChanges, LAMBDA c : c.isSigner), LAMBDA signer :
                 IF signer # 0 THEN solChanges[signer].account
                 ELSE IF solChanges # <<>> THEN solChanges[1].account
                 ELSE "null")))

\* tradeInfo.signature = signature (timestamp and slot are not modelled)
Signed(tradeInfo, signature) ==
    IF tradeInfo.kind = "outcome" THEN [tradeInfo EXCEPT !.signature = signature]
    ELSE tradeInfo

\* the body of parseTrade's try block: what it evaluates to, Throw when it throws
ParseTradeBody(signature, t, jupiterTrade) ==
    IF jupiterTrade # Null /\ t # NoTransaction
    THEN IF IdentifyDEXThrows(t) THEN Throw
         ELSE With(IF IdentifyDEX(t) = "pump_fun"
                   THEN ParsePumpFunTransaction(t) ELSE Null, LAMBDA pumpFunTrade :
              With(BackfilledHolder(t), LAMBDA holderAddress :
                  IF pumpFunTrade # Null THEN pumpFunTrade
                  ELSE IF holderAddress = "throw" THEN Throw
                  ELSE [jupiterTrade EXCEPT !.holderAddress = holderAddress]))
    ELSE IF t = NoTransaction THEN Throw
    ELSE IF IdentifyDEXThrows(t) THEN Throw
    ELSE Signed(ParseByDex(t, IdentifyDEX(t)), signature)

\* a slip: the cache check never returns, every call does the whole work
CacheCheckSkipped(c, signature, useCache, t) == FALSE

\* whether parseTrade returns from its cache check
CacheHit(c, signature, useCache, t) ==
    useCache /\ CacheGetValue(c, signature, t) # Null

\* parseTrade(signature, {useJupiterAPI, useCache}), given what the fetch
\* and the external API answer: the value returned, the cache afterwards and
\* the number of fetch and API calls made
ParseTrade(c, t, signature, useJupiterAPI, useCache, fetched, data) ==
    With(IF useCache THEN CacheGetAfter(c, signature, t) ELSE c, LAMBDA afterGet :
    With(IF useJupiterAPI THEN ParseJupiterViaAPI(data) ELSE Null, LAMBDA jupiterTrade :
    With(ParseTradeBody(signature, fetched, jupiterTrade), LAMBDA body :
    With(IF body = Throw THEN Null ELSE body, LAMBDA ret :
        IF CacheHit(c, signature, useCache, t)
        THEN [ret |-> CacheGetValue(c, signature, t), cache |-> afterGet,
              fetches |-> 0, apiCalls |-> 0]
        ELSE [ret |-> ret,
              cache |-> IF useCache /\ ret # Null
                        THEN CacheSetAfter(afterGet, signature, ret, t)
                        ELSE afterGet,
              fetches |-> 1,
              apiCalls |-> IF useJupiterAPI THEN 1 ELSE 0]))))

(***************************************************************************)
(* parseTradeFromTransactionSync                                           *)
(***************************************************************************)
\* TOKEN_SYMBOL_MAP, on the mints of the model
TokenSymbolMap(mint) == IF mint = SOL_MINT THEN "SOL" ELSE ""

\* getTokenSymbol(mint, defaultSymbol)
GetTokenSymbol(mint, defaultSymbol) ==
    IF mint = "" THEN defaultSymbol
    ELSE IF mint = SOL_MINT \/ mint = "SOL" THEN "SOL"
    ELSE IF TokenSymbolMap(mint) # "" THEN TokenSymbolMap(mint)
    ELSE IF defaultSymbol # "Token" /\ defaultSymbol # "Unknown" THEN defaultSymbol
    ELSE "Unknown"

\* the simplified token of the batch results
SimpleToken(token) == [token EXCEPT !.symbol = GetTokenSymbol(token.mint, token.symbol)]

\* the `result` object parseTradeFromTransactionSync builds
SyncResult(tradeInfo) ==
    [kind |-> "outcome", type |-> tradeInfo.type, dex |-> tradeInfo.dex,
     source |-> tradeInfo.source,
     soldToken |-> SimpleToken(tradeInfo.soldToken),
     boughtToken |-> SimpleToken(tradeInfo.boughtToken),
     price |-> tradeInfo.price,
     fee |-> IF tradeInfo.fee = "undefined" THEN "null" ELSE tradeInfo.fee,
     holderAddress |-> tradeInfo.holderAddress]

\* the try block of parseTradeFromTransactionSync
SyncBody(signature, t) ==
    IF t = NoTransaction THEN Null
    ELSE IF ~t.hasTransaction \/ ~t.hasMeta THEN Null
    ELSE IF IdentifyDEXThrows(t) THEN Throw
    ELSE With(ParseByDexSync(t, IdentifyDEX(t)), LAMBDA tradeInfo :
             IF tradeInfo.kind = "outcome" THEN SyncResult(tradeInfo) ELSE tradeInfo)

\* the catch block of parseTradeFromTransactionSync: it reads isDebugSignature,
\* which no scope declares, so the handler itself throws a ReferenceError
SyncCatch == Throw

\* parseTradeFromTransactionSync(parser, signature, transaction)
ParseTradeFromTransactionSync(signature, t) ==
    With(SyncBody(signature, t), LAMBDA result :
        IF result = Throw THEN SyncCatch ELSE result)

(***************************************************************************)
(* Transactions (getParsedTransaction results) the model classifies        *)
(***************************************************************************)
\* an entry of message.accountKeys: a string, or an object with a signer flag
Key(pubkey, isObject, signer) == [pubkey |-> pubkey, isObject |-> isObject, signer |-> signer]

\* an instruction: its programId ("" when it has programIdIndex instead) and
\* its parsed.type ("" when it is not parsed)
Ix(programId, programIdIndex, parsedType) ==
    [programId |-> programId, programIdIndex |-> programIdIndex, parsedType |-> parsedType]

\* an entry of pre/postTokenBalances
Bal(owner, mint, amount) == [owner |-> owner, mint |-> mint, amount |-> amount, decimals |-> 6]

Wallet == "Wallet"
Pool == "Pool"
MintM == "MintM"
MintN == "MintN"

\* a well-formed transaction of the two accounts Wallet (index 0) and Pool (index 1)
Tx(keys, nsig, instructions, inner, logs, preBal, postBal, preTok, postTok) ==
    [hasTransaction |-> TRUE, hasMessage |-> TRUE, hasInstructions |-> TRUE,
     hasMeta |-> TRUE, hasPreBalances |-> TRUE, hasPostBalances |-> TRUE,
     accountKeys |-> keys, numRequiredSignatures |-> nsig, loadedAddresses |-> <<>>,
     instructions |-> instructions, innerInstructions |-> inner, logMessages |-> logs,
     preBalances |-> preBal, postBalances |-> postBal,
     preTokenBalances |-> preTok, postTokenBalances |-> postTok]

\* the token balance entries of one (owner, mint) pair whose balance changes by
\* delta: none when delta = 0; a new account has no pre entry, a closed one no post entry
PreEntries(owner, mint, delta, fresh) ==
    IF delta = 0 \/ (fresh /\ delta > 0) THEN <<>>
    ELSE <<Bal(owner, mint, IF delta < 0 /\ fresh THEN -delta
                            ELSE IF delta < 0 THEN 1000 - delta ELSE 1000)>>

PostEntries(owner, mint, delta, fresh) ==
    IF delta = 0 \/ (fresh /\ delta < 0) THEN <<>>
    ELSE <<Bal(owner, mint, IF delta > 0 /\ fresh THEN delta
                            ELSE IF delta > 0 THEN 1000 + delta ELSE 1000)>>

\* how the account keys name the signer
StringKeys == <<Key(Wallet, FALSE, "undefined"), Key(Pool, FALSE, "undefined")>>
ObjectKeys(walletSigns) ==
    <<Key(Wallet, TRUE, IF walletSigns THEN "true" ELSE "false"), Key(Pool, TRUE, "false")>>

\* a transaction given by its balance changes: of the wallet's and the pool's
\* SOL, and of the token pairs (Wallet, M), (Wallet, N), (Pool, M), (Wallet, wSOL)
BalanceTx(keys, nsig, instructions, inner, logs, dW, dP, wm, wn, pm, ws, fresh) ==
    Tx(keys, nsig, instructions, inner, logs,
       <<5000000, 5000000>>, <<5000000 + dW, 5000000 + dP>>,
       PreEntries(Wallet, MintM, wm, fresh) \o PreEntries(Wallet, MintN, wn, fresh)
           \o PreEntries(Pool, MintM, pm, fresh) \o PreEntries(Wallet, SOL_MINT, ws, fresh),
       PostEntries(Wallet, MintM, wm, fresh) \o PostEntries(Wallet, MintN, wn, fresh)
           \o PostEntries(Pool, MintM, pm, fresh) \o PostEntries(Wallet, SOL_MINT, ws, fresh))

\* one top-level instruction of a program
Main(programId) == <<Ix(programId, -1, "")>>

\* family 1: every combination of balance changes, no DEX program, no logs
BalanceFamily ==
    { BalanceTx(StringKeys, 1, Main(TOKEN_PROGRAM_ID), <<>>, <<>>, dW, dP, wm, wn, pm, ws, FALSE) :
        dW \in {0, -1500000, -101, -100, 800000, 101},
        dP \in {0, 1500000, -800000},
        wm \in {0, 1000000, -500000, 2, 1, -2},
        wn \in {0, 20000000, -10000000},
        pm \in {0, -1000000, 500000},
        ws \in {0, 800000, -1500000} }

\* the balance shapes the other families combine with programs, logs and signers:
\* <<dW, dP, wm, wn, pm, ws>>
Shapes ==
    { <<-1500000, 0, 1000000, 0, 0, 0>>,        \* a buy
      <<800000, 0, -500000, 0, 0, 0>>,          \* a sell
      <<0, 0, -10000000, 20000000, 0, 0>>,      \* a token-to-token swap
      <<0, 0, 1000000, 0, 0, 0>>,               \* one token delta alone
      <<800000, 0, 0, 0, 0, -800000>>,          \* unwrapping wrapped SOL
      <<-1500000, 1500000, 1000000, 0, -1000000, 0>>,  \* a buy, with the pool's side
      <<-5000, 0, -10000000, 20000000, 0, 0>>,  \* a swap, with the fee paid
      <<0, 0, 0, 0, 0, 0>> }                    \* nothing

ShapeTx(keys, nsig, instructions, inner, logs, s, fresh) ==
    BalanceTx(keys, nsig, instructions, inner, logs, s[1], s[2], s[3], s[4], s[5], s[6], fresh)

\* the instruction lists of family 2: <<top-level, inner>>
ProgramChoices ==
    { <<Main(TOKEN_PROGRAM_ID), <<>>>>,
      <<Main(PUMP_FUN_PROGRAM_ID), <<>>>>,
      <<Main(RAYDIUM_PROGRAM_ID), <<>>>>,
      <<Main("whirLbMiicVdio4qvUfM5KAg6Ct8VwpYzGff3uctyCc"), <<>>>>,
      <<Main("JUP6LkbZbjS1jKKwapdHNy74zcZ3tLUZoi5QNyVTaV4"), <<>>>>,
      <<Main("LBUZKhRxPF3XUpBCjp4YzTKgLccjZhTSDM9YuVaPwxo"), <<>>>>,
      <<Main("JUP6LkbZbjS1jKKwapdHNy74zcZ3tLUZoi5QNyVTaV4"), Main(PUMP_FUN_PROGRAM_ID)>>,
      <<<<Ix(TOKEN_PROGRAM_ID, -1, "deposit")>>, <<>>>> }

\* the log texts of family 2
LogChoices ==
    { <<>>, <<LogSell>>, <<LogBuy>>, <<LogDeposit>>, <<LogPumpInvoke>>,
      <<LogPumpInvoke, LogSell>>, <<LogPumpInvoke, LogBuy>>, <<LogMeteora>>, <<LogDflow>>,
      <<LogTransfer>> }

\* family 2: every program and log text, on the balance shapes
DexFamily ==
    { ShapeTx(StringKeys, 1, p[1], p[2], logs, s, FALSE) :
        p \in ProgramChoices, logs \in LogChoices, s \in Shapes }

\* family 3: the ways the account keys name the signer, new and closed token accounts
SignerFamily ==
    { ShapeTx(k[1], k[2], Main(TOKEN_PROGRAM_ID), <<>>, <<>>, s, fresh) :
        k \in { <<StringKeys, 0>>, <<StringKeys, 1>>, <<StringKeys, 2>>,
                <<ObjectKeys(TRUE), 1>>, <<ObjectKeys(FALSE), 1>>, <<ObjectKeys(FALSE), 0>> },
        s \in Shapes, fresh \in BOOLEAN }

\* family 4: payloads with parts missing
MalformedFamily ==
    { [ShapeTx(StringKeys, 1, p[1], p[2], <<>>, <<-1500000, 0, 1000000, 0, 0, 0>>, FALSE)
         EXCEPT !.hasTransaction = f[1], !.hasMessage = f[1] /\ f[2],
                !.hasInstructions = f[1] /\ f[2] /\ f[3],
                !.hasMeta = f[4], !.hasPreBalances = f[4] /\ f[5],
                !.hasPostBalances = f[4] /\ f[6]] :
        p \in ProgramChoices, f \in [1..6 -> BOOLEAN] }

\* the answers of the external API the classification is checked on
ApiAnswers ==
    { NoApiData }
    \cup { [kind |-> "data", inputMint |-> m[1], outputMint |-> m[2],
            inputAmount |-> a[1], outputAmount |-> a[2], price |-> p, fee |-> "undefined"] :
             m \in { <<SOL_MINT, MintM>>, <<MintM, SOL_MINT>>, <<MintM, MintN>>,
                     <<SOL_MINT, SOL_MINT>> },
             a \in { <<1500000, 1000000>>, <<5000, 1000000>>, <<1500000, 0>> },
             p \in { Num(3, 2), Num(-3, 2), PriceUndefined } }

\* no classification call made yet
NoCall == [fn |-> "none", useJupiterAPI |-> FALSE, data |-> NoApiData]
\* no call has returned yet
NoOutcome == [kind |-> "pending"]
\* the signature of the transaction being classified
TheSignature == "sig1"

(***************************************************************************)
(* The stand-alone cache: any sequence of get, set, clear and clock ticks  *)
(***************************************************************************)
NoOp == [name |-> "none", key |-> 0, ret |-> Null]

CacheInit ==
    /\ cache = <<>>
    /\ now = 0
    /\ op = NoOp
    /\ inserted = <<>>
    /\ pureSets = TRUE
    /\ insertedAt = [k \in CacheKeys |-> -1]
    /\ expiredSeen = [k \in CacheKeys |-> FALSE]
    /\ tx = NoTransaction
    /\ call = NoCall
    /\ out = NoOutcome

CacheSet(key) ==
    /\ Len(inserted) < MaxInserts
    /\ cache' = CacheSetAfter(cache, key, CacheValue(key, now), now)
    /\ op' = [name |-> "set", key |-> key, ret |-> Null]
    /\ inserted' = Append(inserted, key)
    /\ insertedAt' = [insertedAt EXCEPT ![key] = now]
    /\ expiredSeen' = [expiredSeen EXCEPT ![key] = FALSE]
    /\ UNCHANGED <<now, pureSets, tx, call, out>>

CacheGet(key) ==
    /\ cache' = CacheGetAfter(cache, key, now)
    /\ op' = [name |-> "get", key |-> key, ret |-> CacheGetValue(cache, key, now)]
    /\ pureSets' = FALSE
    /\ expiredSeen' = [expiredSeen EXCEPT ![key] =
                          @ \/ (CacheHas(cache, key) /\ now - insertedAt[key] > Ttl)]
    /\ UNCHANGED <<now, inserted, insertedAt, tx, call, out>>

CacheClear ==
    /\ cache # <<>>
    /\ cache' = <<>>
    /\ op' = [name |-> "clear", key |-> 0, ret |-> Null]
    /\ inserted' = <<>>
    /\ pureSets' = TRUE
    /\ UNCHANGED <<now, insertedAt, expiredSeen, tx, call, out>>

Tick ==
    /\ now < MaxClock
    /\ now' = now + 1
    /\ op' = [name |-> "tick", key |-> 0, ret |-> Null]
    /\ UNCHANGED <<cache, inserted, pureSets, insertedAt, expiredSeen, tx, call, out>>

CacheNext ==
    \/ \E key \in CacheKeys : CacheSet(key)
    \/ \E key \in CacheKeys : CacheGet(key)
    \/ CacheClear
    \/ Tick

SpecCache == CacheInit /\ [][CacheNext]_vars

\* the keys of the cache, oldest insertion first
CacheKeySeq(c) == [i \in 1..Len(c) |-> c[i].key]

\* no element occurs twice in the sequence
Distinct(seq) == \A i, j \in 1..Len(seq) : i # j => seq[i] # seq[j]

\* capacity + 1 distinct keys were set into an empty cache, and nothing else was called
OverfilledByOne == pureSets /\ Len(inserted) = MaxSize + 1 /\ Distinct(inserted)

\* C9: after any sequence of insertions the cache holds at most MaxSize entries,
\* and after capacity + 1 distinct keys were set into an empty cache it holds
\* exactly the last `capacity` of them, in order: the first-inserted key is the
\* one evicted.
C9_CapacityOldestFirst ==
    /\ Len(cache) <= MaxSize
    /\ OverfilledByOne => CacheKeySeq(cache) = Tail(inserted)

\* C9 witness: the capacity + 1 st distinct key has just been set
C9_Witness == OverfilledByOne /\ op.name = "set" /\ Len(cache) = MaxSize

\* C10: a read of key k returns the stored value exactly when an entry for k
\* exists and at most Ttl has elapsed since k was last set; a read past the
\* TTL returns nothing and removes the entry, and once such a read happened
\* every read of k misses until k is set again.
C10_ReadWithinTtl ==
    [][ op'.name = "get" =>
        LET k == op'.key
            live == CacheHas(cache, k) /\ now - insertedAt[k] <= Ttl
        IN  /\ (op'.ret # Null) <=> live
            /\ live => op'.ret = CacheValue(k, insertedAt[k])
            /\ ~live => ~CacheHas(cache', k)
            /\ expiredSeen[k] => op'.ret = Null
      ]_vars

\* C10 witness: a read past the TTL has returned nothing and removed the entry
C10_Witness ==
    /\ op.name = "get" /\ op.ret = Null
    /\ expiredSeen[op.key] /\ insertedAt[op.key] >= 0
    /\ ~CacheHas(cache, op.key)

\* family 5: transactions large enough for identifyDEX's structural heuristic
ManyKeys == [i \in 1..11 |-> Key(IF i = 1 THEN Wallet ELSE IF i = 2 THEN Pool
                                 ELSE "Account" \o ToString(i), FALSE, "undefined")]

HeuristicFamily ==
    { ShapeTx(ManyKeys, 1, [i \in 1..4 |-> Ix(TOKEN_PROGRAM_ID, -1, "")], <<>>, <<>>, s, FALSE) :
        s \in Shapes }

\* the transactions the classification is checked on
Transactions ==
    BalanceFamily \cup DexFamily \cup SignerFamily \cup MalformedFamily \cup HeuristicFamily

\* the transactions classified with every answer of the external API
ApiTransactions == DexFamily \cup SignerFamily \cup MalformedFamily \cup HeuristicFamily

(***************************************************************************)
(* Classification of one transaction: parseTrade without its cache, and    *)
(* parseTradeFromTransactionSync                                           *)
(***************************************************************************)

ClassifyInit ==
    /\ tx \in Transactions
    /\ call = NoCall
    /\ out = NoOutcome
    /\ cache = <<>>
    /\ now = 0
    /\ op = NoOp
    /\ inserted = <<>>
    /\ pureSets = TRUE
    /\ insertedAt = [k \in CacheKeys |-> -1]
    /\ expiredSeen = [k \in CacheKeys |-> FALSE]

\* parseTrade(signature, {useJupiterAPI, useCache: false}), the fetch returning tx
CallParseTrade(useJupiterAPI, data) ==
    /\ call = NoCall
    /\ useJupiterAPI \/ data = NoApiData
    /\ data = NoApiData \/ tx \in ApiTransactions
    /\ call' = [fn |-> "parseTrade", useJupiterAPI |-> useJupiterAPI, data |-> data]
    /\ out' = ParseTrade(<<>>, 0, TheSignature, useJupiterAPI, FALSE, tx, data).ret
    /\ UNCHANGED <<tx, cache, now, op, inserted, pureSets, insertedAt, expiredSeen>>

\* parseTrade(signature, ...), the fetch failing or finding nothing
CallParseTradeNotFound(data) ==
    /\ call = NoCall
    /\ data = NoApiData \/ tx \in ApiTransactions
    /\ call' = [fn |-> "parseTradeNotFound", useJupiterAPI |-> TRUE, data |-> data]
    /\ out' = ParseTrade(<<>>, 0, TheSignature, TRUE, FALSE, NoTransaction, data).ret
    /\ UNCHANGED <<tx, cache, now, op, inserted, pureSets, insertedAt, expiredSeen>>

\* parseTradeFromTransactionSync(parser, signature, tx)
CallSync ==
    /\ call = NoCall
    /\ call' = [fn |-> "sync", useJupiterAPI |-> FALSE, data |-> NoApiData]
    /\ out' = ParseTradeFromTransactionSync(TheSignature, tx)
    /\ UNCHANGED <<tx, cache, now, op, inserted, pureSets, insertedAt, expiredSeen>>

ClassifyNext ==
    \/ \E useJupiterAPI \in BOOLEAN, data \in ApiAnswers : CallParseTrade(useJupiterAPI, data)
    \/ \E data \in ApiAnswers : CallParseTradeNotFound(data)
    \/ CallSync

SpecClassify == ClassifyInit /\ [][ClassifyNext]_vars

(***************************************************************************)
(* What the claims speak of: a transaction's raw balance changes           *)
(***************************************************************************)
\* every part of the payload is present
WellFormed(t) ==
    /\ t.hasTransaction /\ t.hasMessage /\ t.hasInstructions
    /\ t.hasMeta /\ t.hasPreBalances /\ t.hasPostBalances

\* the accounts and mints of the transactions of the model
Owners == {Wallet, Pool}
Mints == {MintM, MintN, SOL_MINT}

\* the change of an account's native balance
NativeDelta(t, account) ==
    SumSeq([i \in 1..Len(t.postBalances) |->
               IF t.accountKeys[i].pubkey = account
               THEN t.postBalances[i] - t.preBalances[i] ELSE 0])

\* the balance an owner holds of a mint according to a token balance array
RawAmount(balances, owner, mint) ==
    SumSeq([i \in 1..Len(balances) |->
               IF balances[i].owner = owner /\ balances[i].mint = mint
               THEN balances[i].amount ELSE 0])

\* the change of an owner's balance of a mint
TokenDelta(t, owner, mint) ==
    RawAmount(t.postTokenBalances, owner, mint) - RawAmount(t.preTokenBalances, owner, mint)

\* the wallet w spends native currency and receives the token m, and nothing else
SpendsNativeForToken(t, w, m) ==
    /\ WellFormed(t) /\ m # SOL_MINT
    /\ NativeDelta(t, w) < 0 /\ TokenDelta(t, w, m) > 0
    /\ \A other \in Mints \ {m} : TokenDelta(t, w, other) = 0

\* the wallet w gives the token m and receives native currency, and nothing else
SellsTokenForNative(t, w, m) ==
    /\ WellFormed(t) /\ m # SOL_MINT
    /\ NativeDelta(t, w) > 0 /\ TokenDelta(t, w, m) < 0
    /\ \A other \in Mints \ {m} : TokenDelta(t, w, other) = 0

\* no account but w has any balance change
NobodyElseChanges(t, w) ==
    \A p \in Owners \ {w} :
        NativeDelta(t, p) = 0 /\ \A mint \in Mints : TokenDelta(t, p, mint) = 0

\* the only other changes are those of one counterparty, which receives what w
\* gives and gives what w receives
OnlyCounterparty(t, w, m) ==
    \A p \in Owners \ {w} :
        /\ NativeDelta(t, p) \in {0, -NativeDelta(t, w)}
        /\ TokenDelta(t, p, m) \in {0, -TokenDelta(t, w, m)}
        /\ \A other \in Mints \ {m} : TokenDelta(t, p, other) = 0

\* the wallet w is the acting wallet: the one signer of the transaction
ActingWallet(t, w) ==
    \A i \in 1..Len(t.accountKeys) : IsSignerAt(t, i - 1) <=> t.accountKeys[i].pubkey = w

\* the log text and the instructions name no liquidity operation, and the log
\* text names no trade direction
PlainLogs(t) ==
    /\ ~IsLiquidityOperation(t)
    /\ ~LogIncludes(t, "instruction: sell") /\ ~LogIncludes(t, "instruction: buy")

\* the call classified the fetched transaction
Called == call.fn \in {"parseTrade", "sync"}

\* the external API gave parseTrade no accepted result
NoApiResult == ~call.useJupiterAPI \/ ParseJupiterViaAPI(call.data) = Null

\* the outcome is a buy of y tokens for x native
IsBuy(o, x, y) ==
    /\ o.kind = "outcome" /\ o.type = "buy"
    /\ o.soldToken.mint = SOL_MINT /\ o.soldToken.amount = x
    /\ o.boughtToken.amount = y /\ o.price = Num(x, y)

\* the outcome is a sale of y tokens for x native
IsSell(o, x, y) ==
    /\ o.kind = "outcome" /\ o.type = "sell"
    /\ o.boughtToken.mint = SOL_MINT /\ o.boughtToken.amount = x
    /\ o.soldToken.amount = y /\ o.price = Num(x, y)

\* C1: for every transaction in which a wallet's only balance changes are -X
\* native and +Y of one non-native token, classification returns type = buy,
\* soldToken = X native, boughtToken.amount = Y and price = X / Y.  Stated here
\* for the transactions the heuristic is designed for: amounts above the dust
\* thresholds, no liquidity keyword or direction in the logs, no answer from
\* the external API, the wallet being the transaction's signer, and no other
\* change than the counterparty's.
C1_BuyClassified ==
    \A w \in Owners, m \in Mints :
        ( /\ Called /\ NoApiResult
          /\ ActingWallet(tx, w)
          /\ SpendsNativeForToken(tx, w, m) /\ OnlyCounterparty(tx, w, m)
          /\ -NativeDelta(tx, w) > SmallChange /\ TokenDelta(tx, w, m) > TokenDust
          /\ PlainLogs(tx) )
        => IsBuy(out, -NativeDelta(tx, w), TokenDelta(tx, w, m))

\* the same, for the transactions in which no other account changes at all
BuyClassifiedAlone ==
    \A w \in Owners, m \in Mints :
        ( /\ Called /\ NoApiResult
          /\ SpendsNativeForToken(tx, w, m) /\ NobodyElseChanges(tx, w)
          /\ -NativeDelta(tx, w) > SmallChange /\ TokenDelta(tx, w, m) > TokenDust
          /\ PlainLogs(tx) )
        => IsBuy(out, -NativeDelta(tx, w), TokenDelta(tx, w, m))

\* C2: for every transaction in which a wallet's only balance changes are -Y of
\* one non-native token and +X native, classification returns type = sell,
\* soldToken.amount = Y, boughtToken = X native and price = X / Y.  Stated for
\* the same transactions as C1.
C2_SellClassified ==
    \A w \in Owners, m \in Mints :
        ( /\ Called /\ NoApiResult
          /\ ActingWallet(tx, w)
          /\ SellsTokenForNative(tx, w, m) /\ OnlyCounterparty(tx, w, m)
          /\ NativeDelta(tx, w) > SmallChange /\ -TokenDelta(tx, w, m) > TokenDust
          /\ PlainLogs(tx) )
        => IsSell(out, NativeDelta(tx, w), -TokenDelta(tx, w, m))

\* the same, for the transactions in which no other account changes at all
SellClassifiedAlone ==
    \A w \in Owners, m \in Mints :
        ( /\ Called /\ NoApiResult
          /\ SellsTokenForNative(tx, w, m) /\ NobodyElseChanges(tx, w)
          /\ NativeDelta(tx, w) > SmallChange /\ -TokenDelta(tx, w, m) > TokenDust
          /\ PlainLogs(tx) )
        => IsSell(out, NativeDelta(tx, w), -TokenDelta(tx, w, m))

\* the owner w gives the token a and receives the token b, nothing else changes
\* in the transaction, and no native balance changes
SwapsTokens(t, w, a, b) ==
    /\ WellFormed(t) /\ a # SOL_MINT /\ b # SOL_MINT /\ a # b
    /\ TokenDelta(t, w, a) < 0 /\ TokenDelta(t, w, b) > 0
    /\ \A other \in Mints \ {a, b} : TokenDelta(t, w, other) = 0
    /\ NobodyElseChanges(t, w) /\ NativeDelta(t, w) = 0

\* the outcome is a swap of x of the token a for y of the token b
IsSwap(o, a, x, b, y) ==
    /\ o.kind = "outcome" /\ o.type = "swap"
    /\ o.soldToken.mint = a /\ o.soldToken.amount = x
    /\ o.boughtToken.mint = b /\ o.boughtToken.amount = y
    /\ o.price = Num(y, x)

\* C3: for every transaction with exactly one negative and one positive
\* non-native token delta for the same owner and no native change,
\* classification returns type = swap with the magnitudes of the two deltas as
\* amounts and price = boughtAmount / soldAmount, whichever DEX the transaction
\* is identified as.  Stated for deltas above the dust threshold, logs and
\* instructions without liquidity keyword, and no answer from the external API.
C3_SwapClassified ==
    \A w \in Owners, a \in Mints, b \in Mints :
        ( /\ Called /\ NoApiResult
          /\ SwapsTokens(tx, w, a, b)
          /\ -TokenDelta(tx, w, a) > TokenDust /\ TokenDelta(tx, w, b) > TokenDust
          /\ ~IsLiquidityOperation(tx) )
        => IsSwap(out, a, -TokenDelta(tx, w, a), b, TokenDelta(tx, w, b))

\* the same, for the transactions that go to the generic parser
SwapClassifiedGeneric ==
    \A w \in Owners, a \in Mints, b \in Mints :
        ( /\ Called /\ NoApiResult
          /\ SwapsTokens(tx, w, a, b)
          /\ -TokenDelta(tx, w, a) > TokenDust /\ TokenDelta(tx, w, b) > TokenDust
          /\ ~IsLiquidityOperation(tx)
          /\ IdentifyDEX(tx) \notin {"raydium", "orca", "pump_fun"} )
        => IsSwap(out, a, -TokenDelta(tx, w, a), b, TokenDelta(tx, w, b))

\* the transaction has one nonzero token delta and no native delta
SingleTokenDelta(t) ==
    /\ WellFormed(t)
    /\ \A p \in Owners : NativeDelta(t, p) = 0
    /\ Cardinality({pm \in Owners \X Mints : TokenDelta(t, pm[1], pm[2]) # 0}) = 1

C5_TypeMatchesMints ==
    (out.kind = "outcome" /\ out.source # "jupiter_api") =>
        /\ out.type = "buy" =>
               out.soldToken.mint = SOL_MINT /\ out.boughtToken.mint # SOL_MINT
        /\ out.type = "sell" =>
               out.boughtToken.mint = SOL_MINT /\ out.soldToken.mint # SOL_MINT
        /\ out.type = "swap" =>
               out.soldToken.mint # SOL_MINT /\ out.boughtToken.mint # SOL_MINT

\* a price that is null (or left out), or a finite number that is not negative
PriceIsSound(p) ==
    \/ p \in {PriceNull, PriceUndefined}
    \/ p.k = "number" /\ p.d > 0 /\ p.n >= 0

\* C6: in every outcome returned by classification, price is either null or a
\* finite, non-negative number, and it is null whenever a sold or bought amount
\* is zero; for the outcomes of the external-API path, of the specialized
\* parsers and of the generic parser.
C6_PriceSound ==
    out.kind = "outcome" =>
        /\ PriceIsSound(out.price)
        /\ (out.soldToken.amount = 0 \/ out.boughtToken.amount = 0) =>
               out.price \in {PriceNull, PriceUndefined}

\* the same, for the outcomes the parsers compute from the transaction
PriceSoundParsed ==
    (out.kind = "outcome" /\ out.source # "jupiter_api") =>
        /\ PriceIsSound(out.price)
        /\ (out.soldToken.amount = 0 \/ out.boughtToken.amount = 0) =>
               out.price \in {PriceNull, PriceUndefined}

\* C7: single-signature classification never raises to its caller: for every
\* signature, every transaction payload and every failure of the fetch or of
\* the external API, parseTrade and parseTradeFromTransactionSync return an
\* outcome or null and never throw.
C7_NeverThrows == out # Throw

\* the same, for parseTrade alone
ParseTradeNeverThrows == call.fn = "parseTrade" => out # Throw

(***************************************************************************)
(* parseTrade with its cache, called again and again while time passes     *)
(***************************************************************************)
\* how many calls of parseTrade a behaviour makes
MaxCalls == 2

\* the signatures looked up
Signatures == {1, 2}

\* the transaction behind the signatures: a buy, a swap, or a single token
\* delta, which classifies as nothing
CachedTransactions ==
    { ShapeTx(ObjectKeys(TRUE), 1, Main(TOKEN_PROGRAM_ID), <<>>, <<>>, s, TRUE) :
        s \in { <<-1500000, 0, 1000000, 0, 0, 0>>,
                <<0, 0, -10000000, 20000000, 0, 0>>,
                <<0, 0, 1000000, 0, 0, 0>> } }

\* what the external API answers: nothing, or a trade it knows
CachedApiAnswers ==
    { NoApiData,
      [kind |-> "data", inputMint |-> SOL_MINT, outputMint |-> MintM,
       inputAmount |-> 1500000, outputAmount |-> 1000000, price |-> Num(3, 2),
       fee |-> "undefined"] }

\* no call of parseTrade made yet (seq counts the calls)
NoParse ==
    [fn |-> "none", useJupiterAPI |-> FALSE, data |-> NoApiData, signature |-> 0,
     useCache |-> FALSE, seq |-> 0, fetches |-> 0, apiCalls |-> 0, repeat |-> FALSE,
     original |-> [s \in Signatures |-> Null], mutated |-> FALSE]

Init ==
    /\ tx \in CachedTransactions
    /\ call = NoParse
    /\ out = NoOutcome
    /\ cache = <<>>
    /\ now = 0
    /\ op = NoOp
    /\ inserted = <<>>
    /\ pureSets = TRUE
    /\ insertedAt = [k \in CacheKeys |-> -1]
    /\ expiredSeen = [k \in CacheKeys |-> FALSE]

\* the state after a parseTrade call that evaluated to r
ParseTradeReturns(r, signature, useJupiterAPI, useCache, data) ==
    /\ out' = r.ret
    /\ cache' = r.cache
    /\ call' = [fn |-> "parseTrade", useJupiterAPI |-> useJupiterAPI,
                data |-> data, signature |-> signature, useCache |-> useCache,
                seq |-> call.seq + 1, fetches |-> r.fetches,
                apiCalls |-> r.apiCalls,
                repeat |-> /\ call.fn = "parseTrade" /\ call.useCache
                           /\ useCache /\ call.signature = signature,
                original |-> IF r.fetches = 1 /\ useCache /\ r.ret # Null
                             THEN [call.original EXCEPT ![signature] = r.ret]
                             ELSE call.original,
                mutated |-> FALSE]

\* parseTrade(signature, {useJupiterAPI, useCache}) on the parser's cache; the
\* fetch returns the transaction or fails, the external API answers data
ParseTradeCall(signature, useJupiterAPI, useCache, fetched, data) ==
    /\ call.seq < MaxCalls
    /\ useJupiterAPI \/ data = NoApiData
    /\ ParseTradeReturns(
           ParseTrade(cache, now, signature, useJupiterAPI, useCache, fetched, data),
           signature, useJupiterAPI, useCache, data)
    /\ UNCHANGED <<tx, now, op, inserted, pureSets, insertedAt, expiredSeen>>

\* a write of the caller to the object it was handed: tradeInfo.type = ...
Mutated(tradeInfo) == [tradeInfo EXCEPT !.type = "mutated"]

\* the caller of parseTrade changes the outcome it received.  With caching
\* enabled parseTrade returned the very object the cache holds (`return cached`
\* on a hit; on a miss `this.cache.set(signature, tradeInfo)` and then
\* `return tradeInfo`), so the write is a write to the cached value as well.
CallerMutates ==
    /\ call.fn = "parseTrade" /\ out.kind = "outcome" /\ ~call.mutated
    /\ out' = Mutated(out)
    /\ cache' = IF call.useCache
                THEN [i \in 1..Len(cache) |->
                         IF cache[i].key = call.signature
                         THEN [cache[i] EXCEPT !.value = Mutated(out)]
                         ELSE cache[i]]
                ELSE cache
    /\ call' = [call EXCEPT !.mutated = TRUE]
    /\ UNCHANGED <<tx, now, op, inserted, pureSets, insertedAt, expiredSeen>>

Next ==
    \/ \E signature \in Signatures, useJupiterAPI \in BOOLEAN, useCache \in BOOLEAN,
          fetched \in {tx, NoTransaction}, data \in CachedApiAnswers :
           ParseTradeCall(signature, useJupiterAPI, useCache, fetched, data)
    \/ CallerMutates
    \/ Tick

Spec == Init /\ [][Next]_vars

\* C8 as the specification states it: calling parseTrade twice for the same
\* signature with caching enabled returns identical results, and the second
\* call performs zero transaction-fetch calls and zero external-API calls.
C8_SecondCallFromCache ==
    [][ (call'.seq # call.seq /\ call'.repeat) =>
            /\ out' = out
            /\ call'.fetches = 0 /\ call'.apiCalls = 0 ]_vars

\* C8, amended: when the first of two successive calls of parseTrade for the
\* same signature with caching enabled returned an outcome (null is never
\* cached), and the second call comes no more than ttl after that outcome was
\* put in the cache, the second call returns the identical result and performs
\* zero transaction-fetch calls and zero external-API calls.
C8_SecondCallFromFreshEntry ==
    [][ ( /\ call'.seq # call.seq /\ call'.repeat
          /\ out # Null
          /\ now - CacheItem(cache, call'.signature).timestamp <= Ttl ) =>
            /\ out' = out
            /\ call'.fetches = 0 /\ call'.apiCalls = 0 ]_vars

\* a second call that asked for the external API was answered from the cache
C8_Witness ==
    /\ call.repeat /\ call.useJupiterAPI
    /\ call.fetches = 0 /\ call.apiCalls = 0
    /\ out.kind = "outcome"

\* C11: outcomes handed to callers of parseTrade are copies of the cached
\* value: a cache hit returns the outcome as it was originally classified for
\* the signature, whatever callers did to the outcomes they received before.
C11_HitReturnsOriginal ==
    (call.fn = "parseTrade" /\ call.fetches = 0 /\ ~call.mutated) =>
        out = call.original[call.signature]

\* without a write of the caller in between, a cache hit returns the outcome
\* as classified
HitReturnsStored ==
    (call.fn = "parseTrade" /\ call.fetches = 0 /\ ~call.mutated) =>
        \/ out = call.original[call.signature]
        \/ out = Mutated(call.original[call.signature])

(***************************************************************************)
(* parseMultipleTradeInfo: the batch loop, one step per batch              *)
(***************************************************************************)
\* the ceiling of a bulk fetch: Math.min(concurrency, 50), signatures.length <= 50
BatchLimit == 50

\* the most batches one run of the loop is followed for
MaxBatches == 3

\* Array.prototype.slice(start, end): a negative index counts from the end
Slice(seq, start, end) ==
    With(IF start < 0 THEN (IF Len(seq) + start < 0 THEN 0 ELSE Len(seq) + start)
         ELSE (IF start > Len(seq) THEN Len(seq) ELSE start), LAMBDA from :
    With(IF end < 0 THEN (IF Len(seq) + end < 0 THEN 0 ELSE Len(seq) + end)
         ELSE (IF end > Len(seq) THEN Len(seq) ELSE end), LAMBDA to :
        IF from < to THEN SubSeq(seq, from + 1, to) ELSE <<>>))

\* const batchSize = signatures.length <= 50 ? signatures.length : Math.min(concurrency, 50)
BatchSize(signatures, concurrency) ==
    IF Len(signatures) <= BatchLimit THEN Len(signatures)
    ELSE IF concurrency < BatchLimit THEN concurrency ELSE BatchLimit

\* the options parseTradeInfoInternal passes to parseTrade
InternalOptions == [useJupiterAPI |-> FALSE, useCache |-> TRUE]

\* the simplified object parseTradeInfoInternal returns for a trade
InternalResult(tradeInfo) ==
    [kind |-> "outcome", type |-> tradeInfo.type, dex |-> tradeInfo.dex,
     source |-> tradeInfo.source,
     soldToken |-> SimpleToken(tradeInfo.soldToken),
     boughtToken |-> SimpleToken(tradeInfo.boughtToken),
     price |-> tradeInfo.price,
     fee |-> IF tradeInfo.fee = "undefined" THEN "null" ELSE tradeInfo.fee]

\* what the chain holds for the signatures 1, 2, ...: a buy, a Raydium buy, a
\* lone token delta, a payload without a message, or nothing
TransactionOf(signature) ==
    CASE signature % 4 = 1 ->
           ShapeTx(ObjectKeys(TRUE), 1, Main(TOKEN_PROGRAM_ID), <<>>, <<>>,
                   <<-1500000, 0, 1000000, 0, 0, 0>>, FALSE)
      [] signature % 4 = 2 ->
           ShapeTx(StringKeys, 1, Main(RAYDIUM_PROGRAM_ID), <<>>, <<>>,
                   <<-1500000, 0, 1000000, 0, 0, 0>>, FALSE)
      [] signature % 4 = 3 ->
           ShapeTx(StringKeys, 1, Main(TOKEN_PROGRAM_ID), <<>>, <<>>,
                   <<0, 0, 1000000, 0, 0, 0>>, FALSE)
      [] signature % 8 = 4 ->
           [ShapeTx(StringKeys, 1, Main(TOKEN_PROGRAM_ID), <<>>, <<>>,
                    <<-1500000, 0, 1000000, 0, 0, 0>>, FALSE)
              EXCEPT !.hasMessage = FALSE, !.hasInstructions = FALSE]
      [] OTHER -> NoTransaction

\* what the external API knows of the signatures
ApiAnswerOf(signature) ==
    IF signature % 2 = 1
    THEN [kind |-> "data", inputMint |-> SOL_MINT, outputMint |-> MintM,
          inputAmount |-> 1500000, outputAmount |-> 1000000, price |-> Num(3, 2),
          fee |-> "undefined"]
    ELSE NoApiData

\* batch.map((signature, index) => ...) of the bulk path: transactions[index]
\* parsed by parseTradeFromTransactionSync, an exception giving null
BulkBatchResults(batch) ==
    [k \in 1..Len(batch) |->
        [signature |-> batch[k],
         tradeInfo |-> With(ParseTradeFromTransactionSync(batch[k], TransactionOf(batch[k])),
                            LAMBDA tradeInfo :
                                IF tradeInfo = Throw THEN Null ELSE tradeInfo)]]

\* what parseTrade returns to parseTradeInfoInternal: the cached value on a
\* hit, else what the try block evaluates to, null when it throws
InternalTrade(c, t, signature, fetched) ==
    IF CacheHit(c, signature, InternalOptions.useCache, t)
    THEN CacheGetValue(c, signature, t)
    ELSE With(ParseTradeBody(signature, fetched,
                             IF InternalOptions.useJupiterAPI
                             THEN ParseJupiterViaAPI(ApiAnswerOf(signature)) ELSE Null),
              LAMBDA body : IF body = Throw THEN Null ELSE body)

\* a slip in the fallback: only the first signature of the batch is retried
FallbackFirstOnly(c, t, batch, fetchFails) ==
    [k \in 1..(IF batch = <<>> THEN 0 ELSE 1) |->
        [signature |-> batch[k],
         miss |-> ~CacheHit(c, batch[k], InternalOptions.useCache, t),
         trade |-> InternalTrade(c, t, batch[k],
                                 IF fetchFails THEN NoTransaction
                                 ELSE TransactionOf(batch[k]))]]

\* the calls of parseTradeInfoInternal the fallback starts for a batch: each
\* checks the cache before any of them is resumed; miss tells whether the
\* call went on to fetch, trade is what parseTrade returned
FallbackCalls(c, t, batch, fetchFails) ==
    [k \in 1..Len(batch) |->
        [signature |-> batch[k],
         miss |-> ~CacheHit(c, batch[k], InternalOptions.useCache, t),
         trade |-> InternalTrade(c, t, batch[k],
                                 IF fetchFails THEN NoTransaction
                                 ELSE TransactionOf(batch[k]))]]

\* the { signature, tradeInfo } objects of the fallback
FallbackBatchResults(calls) ==
    [k \in 1..Len(calls) |->
        [signature |-> calls[k].signature,
         tradeInfo |-> IF calls[k].trade = Null THEN Null
                       ELSE InternalResult(calls[k].trade)]]

\* batchResults.forEach(result => { if (result.tradeInfo) results.set(...) })
\* (in the three loops below the first conjunct is always true; it has the map
\* built so far evaluated before the next item is visited)
RECURSIVE StoreResults(_, _)
StoreResults(results, batchResults) ==
    IF Len(results) >= 0 /\ batchResults = <<>> THEN results
    ELSE StoreResults(
             IF Head(batchResults).tradeInfo = Null THEN results
             ELSE MapSet(results, Head(batchResults).signature,
                         [key |-> Head(batchResults).signature,
                          value |-> Head(batchResults).tradeInfo]),
             Tail(batchResults))

\* the cache after the cache checks of the fallback's calls
RECURSIVE CacheAfterChecks(_, _, _)
CacheAfterChecks(c, t, batch) ==
    IF Len(c) >= 0 /\ batch = <<>> THEN c
    ELSE CacheAfterChecks(CacheGetAfter(c, Head(batch), t), t, Tail(batch))

\* the cache after the calls that missed have resumed in the given order:
\* if (useCache && tradeInfo) this.cache.set(signature, tradeInfo)
RECURSIVE CacheAfterResumes(_, _, _)
CacheAfterResumes(c, t, calls) ==
    IF Len(c) >= 0 /\ calls = <<>> THEN c
    ELSE CacheAfterResumes(
             IF Head(calls).miss /\ Head(calls).trade # Null
             THEN CacheSetAfter(c, Head(calls).signature, Head(calls).trade, t)
             ELSE c,
             t, Tail(calls))

\* Array.prototype.reverse
Reverse(seq) == [k \in 1..Len(seq) |-> seq[Len(seq) + 1 - k]]

\* the number of calls of the fallback that went on to fetch
RECURSIVE Misses(_)
Misses(calls) ==
    IF calls = <<>> THEN 0
    ELSE (IF Head(calls).miss THEN 1 ELSE 0) + Misses(Tail(calls))

\* the lengths of the signature lists and the batch sizes the loop is run on
SignatureCounts == {0, 1, 2, 50, 51, 60}
Concurrencies == {-1, 0, 20, 50, 100}

\* no parseTrade after the run yet
NoLater == [signature |-> 0, fetches |-> 0, ret |-> Null]

\* the state of parseMultipleTradeInfo(signatures, concurrency) at its start.
\* i is the loop variable; bulk lists the batches given to getParsedTransactions,
\* failed those whose bulk fetch threw, individual the signatures given to
\* parseTradeInfoInternal, unfetched those whose own fetch found nothing;
\* fetches and apiCalls count the calls of getParsedTransaction and of the
\* external API; bulkClassified holds the signatures the bulk path classified
NewRun(signatures, concurrency) ==
    [fn |-> "parseMultipleTradeInfo", signatures |-> signatures,
     concurrency |-> concurrency, i |-> 0, status |-> "running",
     bulk |-> <<>>, failed |-> <<>>, individual |-> <<>>, unfetched |-> {},
     fetches |-> 0, apiCalls |-> 0, bulkClassified |-> {}, later |-> NoLater]

\* the parser's cache when the run starts: empty, or holding signature 1 from
\* an earlier parseTrade at time 0
EarlierCaches ==
    { <<>>, ParseTrade(<<>>, 0, 1, FALSE, TRUE, TransactionOf(1), NoApiData).cache }

BatchInit ==
    /\ call \in { NewRun([k \in 1..n |-> k], concurrency) :
                    n \in SignatureCounts, concurrency \in Concurrencies }
    /\ out = <<>>
    /\ cache \in EarlierCaches
    /\ now \in {0, Ttl + 1}
    /\ tx = NoTransaction
    /\ op = NoOp
    /\ inserted = <<>>
    /\ pureSets = TRUE
    /\ insertedAt = [k \in CacheKeys |-> -1]
    /\ expiredSeen = [k \in CacheKeys |-> FALSE]

\* for (let i = 0; i < signatures.length; i += batchSize): the loop goes on
LoopRuns ==
    /\ call.fn = "parseMultipleTradeInfo" /\ call.status = "running"
    /\ call.i < Len(call.signatures)
    /\ Len(call.bulk) < MaxBatches

\* const batch = signatures.slice(i, i + batchSize)
CurrentBatch ==
    Slice(call.signatures, call.i, call.i + BatchSize(call.signatures, call.concurrency))

\* the signatures of the entries that carry a tradeInfo
Classified(batchResults) ==
    { batchResults[k].signature :
        k \in { j \in 1..Len(batchResults) : batchResults[j].tradeInfo # Null } }

\* the state after the bulk path has produced batchResults for the batch
BulkParsed(batch, batchResults) ==
    /\ out' = StoreResults(out, batchResults)
    /\ call' = [call EXCEPT !.i = @ + BatchSize(call.signatures, call.concurrency),
                            !.bulk = Append(@, batch),
                            !.bulkClassified = @ \cup Classified(batchResults)]

\* one turn of the loop: getParsedTransactions returns the transactions
BulkFetchReturns ==
    /\ LoopRuns
    /\ BulkParsed(CurrentBatch, BulkBatchResults(CurrentBatch))
    /\ UNCHANGED <<cache, tx, now, op, inserted, pureSets, insertedAt, expiredSeen>>

\* one turn of the loop: getParsedTransactions returns null or an empty array
BulkFetchEmpty ==
    /\ LoopRuns
    /\ call' = [call EXCEPT !.i = @ + BatchSize(call.signatures, call.concurrency),
                            !.bulk = Append(@, CurrentBatch)]
    /\ UNCHANGED <<out, cache, tx, now, op, inserted, pureSets, insertedAt, expiredSeen>>

\* the state after the fallback has run the calls for the batch
FallbackRan(batch, calls, fetchFails, backwards) ==
    /\ out' = StoreResults(out, FallbackBatchResults(calls))
    /\ cache' = CacheAfterResumes(CacheAfterChecks(cache, now, batch), now,
                                  IF backwards THEN Reverse(calls) ELSE calls)
    /\ call' = [call EXCEPT
                  !.i = @ + BatchSize(call.signatures, call.concurrency),
                  !.bulk = Append(@, batch),
                  !.failed = Append(@, batch),
                  !.individual = @ \o [k \in 1..Len(calls) |-> calls[k].signature],
                  !.unfetched = @ \cup
                      { calls[k].signature :
                          k \in { j \in 1..Len(calls) :
                                    /\ calls[j].miss
                                    /\ \/ fetchFails
                                       \/ TransactionOf(calls[j].signature) = NoTransaction } },
                  !.fetches = @ + Misses(calls),
                  !.apiCalls = @ + (IF InternalOptions.useJupiterAPI
                                    THEN Misses(calls) ELSE 0)]

\* one turn of the loop: getParsedTransactions throws and every signature of
\* the batch goes through parseTradeInfoInternal; the fetches of those calls
\* all fail or all answer, and the calls resume in batch order or backwards
BulkFetchThrows(fetchFails, backwards) ==
    /\ LoopRuns
    /\ FallbackRan(CurrentBatch, FallbackCalls(cache, now, CurrentBatch, fetchFails),
                   fetchFails, backwards)
    /\ UNCHANGED <<tx, now, op, inserted, pureSets, insertedAt, expiredSeen>>

\* the loop ends (at once for an empty list): return results
ReturnResults ==
    /\ call.fn = "parseMultipleTradeInfo" /\ call.status = "running"
    /\ call.i >= Len(call.signatures)
    /\ call' = [call EXCEPT !.status = "returned"]
    /\ UNCHANGED <<out, cache, tx, now, op, inserted, pureSets, insertedAt, expiredSeen>>

\* the state after a parseTrade that follows the run evaluated to r
LaterReturns(r, signature) ==
    /\ cache' = r.cache
    /\ call' = [call EXCEPT !.status = "later",
                            !.later = [signature |-> signature, fetches |-> r.fetches,
                                       ret |-> r.ret]]

\* after the run: parseTrade(signature, {useCache: true}) for one of its signatures
LaterParseTrade(signature, useJupiterAPI) ==
    /\ call.fn = "parseMultipleTradeInfo" /\ call.status = "returned"
    /\ signature <= Len(call.signatures)
    /\ LaterReturns(ParseTrade(cache, now, signature, useJupiterAPI, TRUE,
                               TransactionOf(signature), ApiAnswerOf(signature)),
                    signature)
    /\ UNCHANGED <<out, tx, now, op, inserted, pureSets, insertedAt, expiredSeen>>

BatchNext ==
    \/ BulkFetchReturns
    \/ BulkFetchEmpty
    \/ \E fetchFails \in BOOLEAN, backwards \in BOOLEAN : BulkFetchThrows(fetchFails, backwards)
    \/ ReturnResults
    \/ \E signature \in {1, 2, 3, 51}, useJupiterAPI \in BOOLEAN :
           LaterParseTrade(signature, useJupiterAPI)

SpecBatch == BatchInit /\ [][BatchNext]_vars

\* the batches one after the other
RECURSIVE Concat(_)
Concat(batches) == IF batches = <<>> THEN <<>> ELSE Head(batches) \o Concat(Tail(batches))

\* a run of parseMultipleTradeInfo is in the state
Running == call.fn = "parseMultipleTradeInfo"

\* the run has returned its result map
Returned == Running /\ call.status # "running"

\* C12: parseMultipleTradeInfo partitions the input signatures, in order, into
\* consecutive batches of at most 50, issues exactly one bulk fetch per batch,
\* and every input signature belongs to exactly one batch; for 60 signatures
\* with every fetch succeeding it makes exactly 2 bulk fetch calls (50 then
\* 10) and zero individual fetch calls.
C12_BatchesPartition ==
    Running =>
        /\ \A k \in 1..Len(call.bulk) : Len(call.bulk[k]) <= BatchLimit
        /\ Returned => Concat(call.bulk) = call.signatures
        /\ ( /\ Returned /\ Len(call.signatures) = 60 /\ call.concurrency = BatchLimit
             /\ call.failed = <<>> ) =>
               /\ Len(call.bulk) = 2
               /\ Len(call.bulk[1]) = 50 /\ Len(call.bulk[2]) = 10
               /\ call.fetches = 0

\* the same for the runs whose batch-size parameter is positive
BatchesPartitionPositive == call.concurrency > 0 => C12_BatchesPartition

\* C13: when the bulk fetch of a batch throws, every signature of that batch
\* is given to parseTradeInfoInternal, a signature whose own fetch also fails
\* is absent from the result map, the result map holds outcomes only (no
\* exception reaches the caller), and the loop goes on with the next batch:
\* a run that has returned has taken every signature into a batch.
C13_FallbackPerSignature ==
    Running =>
        /\ Concat(call.failed) = call.individual
        /\ \A s \in call.unfetched : ~CacheHas(out, s)
        /\ \A k \in 1..Len(out) : out[k].value.kind = "outcome"
        /\ Returned => Concat(call.bulk) = call.signatures

\* a run that returned after a bulk fetch threw for a batch of several
\* signatures: one signature was not fetched, another one came out of the
\* fallback into the result map, and a later batch was fetched
C13_Witness ==
    /\ Returned /\ Len(call.bulk) >= 2
    /\ call.failed # <<>> /\ Len(call.failed[1]) >= 2 /\ call.bulk[1] = call.failed[1]
    /\ call.unfetched # {}
    /\ \E k \in 1..Len(call.individual) : CacheHas(out, call.individual[k])

\* C14: in the per-signature fallback each signature is classified with the
\* external-API path enabled (one API call for every individual fetch), and
\* the bulk path makes no external-API call.
C14_FallbackUsesApi == Running => call.apiCalls = call.fetches

\* C15: after parseMultipleTradeInfo has classified a signature from a bulk
\* fetched transaction, a later parseTrade for that signature with caching
\* enabled performs no fetch.
C15_BulkResultsCached ==
    ( /\ Running /\ call.status = "later"
      /\ call.later.signature \in call.bulkClassified ) => call.later.fetches = 0

(***************************************************************************)
(* The Pump.fun parser's direction                                         *)
(***************************************************************************)
\* a classification call ran the Pump.fun parser on tx, the parser's log text
\* names a sell instruction, and the balance deltas by themselves make a buy
SellLogOnBuyDeltas ==
    /\ Called /\ ~IdentifyDEXThrows(tx) /\ tx.hasMeta
    /\ IdentifyDEX(tx) = "pump_fun"
    /\ LogIncludes(tx, "instruction: sell") \/ LogIncludes(tx, "instruction sell")
    /\ AnalyzeTransaction(tx).kind = "outcome"
    /\ AnalyzeTransaction(tx).type = "buy"

\* the two tokens are the same mint and amount
SameToken(a, b) == a.mint = b.mint /\ a.amount = b.amount

AccountKeysOf(n) ==
    [i \in 1..n |-> Key(IF i = 1 THEN Wallet ELSE IF i = 2 THEN Pool
                        ELSE IF i = 3 THEN RAYDIUM_PROGRAM_ID
                        ELSE "Account" \o ToString(i), FALSE, "undefined")]

\* the instruction list filled up to n instructions with token-program ones
Padded(instructions, n) ==
    instructions \o [i \in 1..(n - Len(instructions)) |-> Ix(TOKEN_PROGRAM_ID, -1, "")]

\* <<top-level, inner>> instruction lists: one program, two DEXes at once, and
\* an instruction that names its program by programIdIndex 2
IdentifyPrograms ==
    ProgramChoices
    \cup { <<Main(RAYDIUM_PROGRAM_ID), Main("whirLbMiicVdio4qvUfM5KAg6Ct8VwpYzGff3uctyCc")>>,
           <<Main("LBUZKhRxPF3XUpBCjp4YzTKgLccjZhTSDM9YuVaPwxo"),
             Main("JUP6LkbZbjS1jKKwapdHNy74zcZ3tLUZoi5QNyVTaV4")>>,
           <<Main("whirLbMiicVdio4qvUfM5KAg6Ct8VwpYzGff3uctyCc"), Main(PUMP_FUN_PROGRAM_ID)>>,
           <<<<Ix("", 2, "")>>, <<>>>> }

\* the token balance arrays <<pre, post>>: none, an unchanged balance, a
\* changed one, a closed account
IdentifyTokenBalances ==
    { <<<<>>, <<>>>>,
      <<<<Bal(Wallet, MintM, 1000)>>, <<Bal(Wallet, MintM, 1000)>>>>,
      <<<<Bal(Wallet, MintM, 1000)>>, <<Bal(Wallet, MintM, 1001000)>>>>,
      <<<<Bal(Wallet, MintM, 1000000)>>, <<>>>> }

\* the transactions identifyDEX is checked on
IdentifyTransactions ==
    { Tx(AccountKeysOf(accounts), 1, Padded(p[1], instructions), p[2], logs,
         <<5000000, 5000000>>, <<5000000 + dW, 5000000>>, tok[1], tok[2]) :
        p \in IdentifyPrograms, logs \in LogChoices,
        accounts \in {2, HeuristicAccounts, HeuristicAccounts + 1},
        instructions \in {HeuristicInstructions, HeuristicInstructions + 1},
        tok \in IdentifyTokenBalances,
        dW \in {0, -5, -HeuristicLamports, -HeuristicLamports - 1, -1500000} }
    \cup MalformedFamily

IdentifyInit ==
    /\ tx \in IdentifyTransactions
    /\ call = NoCall
    /\ out = NoOutcome
    /\ cache = <<>>
    /\ now = 0
    /\ op = NoOp
    /\ inserted = <<>>
    /\ pureSets = TRUE
    /\ insertedAt = [k \in CacheKeys |-> -1]
    /\ expiredSeen = [k \in CacheKeys |-> FALSE]

\* identifyDEX(tx): the tag returned, or the TypeError thrown
CallIdentifyDEX ==
    /\ call = NoCall
    /\ call' = [fn |-> "identifyDEX", useJupiterAPI |-> FALSE, data |-> NoApiData]
    /\ out' = IF IdentifyDEXThrows(tx) THEN Throw
              ELSE [kind |-> "dex", dex |-> IdentifyDEX(tx)]
    /\ UNCHANGED <<tx, cache, now, op, inserted, pureSets, insertedAt, expiredSeen>>

IdentifyNext == CallIdentifyDEX

SpecIdentify == IdentifyInit /\ [][IdentifyNext]_vars

\* identifyDEX returned a tag for tx
Identified == call.fn = "identifyDEX" /\ out # Throw

\* the program ids of the inner and the top-level instructions
ProgramIdSet(t) == { ProgramIds(t)[i] : i \in 1..Len(ProgramIds(t)) }

\* rule 1 of the claim: the first DEX, in the order pump_fun, raydium, orca,
\* jupiter, meteora, dflow, one of whose program ids is among the instructions'
FirstKnownProgram(t) ==
    With(ProgramIdSet(t), LAMBDA ids :
        IF ids \cap DEX_PROGRAMS.PUMP_FUN # {} THEN "pump_fun"
        ELSE IF ids \cap DEX_PROGRAMS.RAYDIUM # {} THEN "raydium"
        ELSE IF ids \cap DEX_PROGRAMS.ORCA # {} THEN "orca"
        ELSE IF ids \cap DEX_PROGRAMS.JUPITER # {} THEN "jupiter"
        ELSE IF ids \cap DEX_PROGRAMS.METEORA # {} THEN "meteora"
        ELSE IF ids \cap DEX_PROGRAMS.DFLOW # {} THEN "dflow"
        ELSE "")

\* some token balance of the transaction changes
TokenChangesPresent(t) ==
    \E o \in Owners, m \in Mints : TokenDelta(t, o, m) # 0

\* some native balance of the transaction changes
NativeChangesPresent(t) ==
    \E i \in 1..Len(t.postBalances) : t.postBalances[i] # t.preBalances[i]

\* rule 3 of the claim
StructuralHeuristic(t) ==
    /\ Len(t.instructions) > HeuristicInstructions
    /\ Len(t.accountKeys) > HeuristicAccounts
    /\ TokenChangesPresent(t) /\ NativeChangesPresent(t)

\* the tag the claim's rules give
FirstMatchingRule(t, heuristic) ==
    IF FirstKnownProgram(t) # "" THEN FirstKnownProgram(t)
    ELSE IF IdentifyByLogs(t) # "" THEN IdentifyByLogs(t)
    ELSE IF heuristic THEN "jupiter"
    ELSE "unknown"

\* C17: identifyDEX returns the result of the first matching rule in the
\* order (1) a known program id among the inner or top-level instructions,
\* DEXes tried as pump_fun, raydium, orca, jupiter, meteora, dflow, (2) the
\* log-text keywords, (3) the structural heuristic (more than 3 instructions,
\* more than 10 accounts, token-balance changes and native-balance changes
\* present) giving the aggregator tag, otherwise unknown; a program-id match
\* is never overridden by the log text or the heuristic.
C17_FirstRuleWins ==
    Identified => out.dex = FirstMatchingRule(tx, StructuralHeuristic(tx))

\* the same with the structural test the code makes: a post token balance
\* entry exists and some native balance moves by more than 0.001 SOL
FirstRuleWinsAsCoded ==
    Identified => out.dex = FirstMatchingRule(tx, LooksRouted(tx))

\* a program-id match is never overridden
ProgramIdDominates ==
    (Identified /\ FirstKnownProgram(tx) # "") => out.dex = FirstKnownProgram(tx)

(***************************************************************************)
(* The balance-change extractors on their own                              *)
(***************************************************************************)
\* the token balance entries of the extractor's inputs: an owner's account of
\* the mint M holding 0, 1 or 5 micro units, or an entry without an owner
ExtractEntries ==
    { Bal(owner, MintM, amount) : owner \in {Wallet, Pool}, amount \in {0, 1, 5} }
    \cup { Bal("", MintM, 5) }

\* the most token accounts in one balance array
MaxAccounts == 2

\* the token balance arrays: up to MaxAccounts entries, so that one owner may
\* hold the mint in several token accounts
ExtractBalances ==
    UNION { [1..n -> ExtractEntries] : n \in 0..MaxAccounts }

\* family 6: every pair of token balance arrays; a missing array is the empty one
\* (meta.preTokenBalances || [])
TokenFamily ==
    { Tx(StringKeys, 1, Main(TOKEN_PROGRAM_ID), <<>>, <<>>,
         <<5000000, 5000000>>, <<5000000, 5000000>>, pre, post) :
        pre \in ExtractBalances, post \in ExtractBalances }

\* family 7: three native balances over two account keys, with and without a
\* loaded address, every way of naming the signers and every header value up
\* to 3; the native changes lie around the 0.0001 SOL threshold
NativeFamily ==
    { [Tx(keys, nsig, Main(TOKEN_PROGRAM_ID), <<>>, <<>>,
          <<5000000, 5000000, 5000000>>,
          <<5000000 + d[1], 5000000 + d[2], 5000000 + d[3]>>, <<>>, <<>>)
         EXCEPT !.loadedAddresses = loaded] :
        keys \in {StringKeys, ObjectKeys(TRUE), ObjectKeys(FALSE)},
        nsig \in 0..3,
        loaded \in {<<>>, <<"Loaded">>},
        d \in {0, -1, -SmallChange, -SmallChange - 1, -1500000}
                \X {0, SmallChange, 1500000} \X {0, SmallChange + 1} }

\* the transactions the extractors are checked on
ExtractTransactions == TokenFamily \cup MalformedFamily \cup SignerFamily \cup NativeFamily

ExtractInit ==
    /\ tx \in ExtractTransactions
    /\ call = NoCall
    /\ out = NoOutcome
    /\ cache = <<>>
    /\ now = 0
    /\ op = NoOp
    /\ inserted = <<>>
    /\ pureSets = TRUE
    /\ insertedAt = [k \in CacheKeys |-> -1]
    /\ expiredSeen = [k \in CacheKeys |-> FALSE]

\* parseTokenBalanceChanges(tx.meta)
CallParseTokenBalanceChanges ==
    /\ call = NoCall
    /\ call' = [fn |-> "parseTokenBalanceChanges", useJupiterAPI |-> FALSE,
                data |-> NoApiData]
    /\ out' = [kind |-> "changes", changes |-> ParseTokenBalanceChanges(tx)]
    /\ UNCHANGED <<tx, cache, now, op, inserted, pureSets, insertedAt, expiredSeen>>

\* parseSOLBalanceChanges(tx): the list returned, or the TypeError thrown
CallParseSOLBalanceChanges ==
    /\ call = NoCall
    /\ call' = [fn |-> "parseSOLBalanceChanges", useJupiterAPI |-> FALSE,
                data |-> NoApiData]
    /\ out' = IF ParseSOLBalanceChangesThrows(tx) THEN Throw
              ELSE [kind |-> "changes", changes |-> ParseSOLBalanceChanges(tx)]
    /\ UNCHANGED <<tx, cache, now, op, inserted, pureSets, insertedAt, expiredSeen>>

ExtractNext == CallParseTokenBalanceChanges \/ CallParseSOLBalanceChanges

SpecExtract == ExtractInit /\ [][ExtractNext]_vars

\* parseTokenBalanceChanges has returned its list for tx
TokenChangesReturned == call.fn = "parseTokenBalanceChanges"

\* the number of entries of a balance array that belong to the pair
AccountsOf(balances, owner, mint) ==
    Len(SelectSeq(balances, LAMBDA b : b.owner = owner /\ b.mint = mint))

\* C18: the list parseTokenBalanceChanges returns has at most one entry per
\* (owner, mint) pair, whatever the input: also with several token accounts of
\* one owner and mint, and with a pair that qualifies in more than one of the
\* three passes.
C18_OnePerOwnerMint ==
    TokenChangesReturned =>
        \A i, j \in 1..Len(out.changes) :
            ( /\ out.changes[i].owner = out.changes[j].owner
              /\ out.changes[i].mint = out.changes[j].mint ) => i = j

\* the wallet holds M in two new token accounts: both post entries pass the
\* changed test and the newly-appeared test, and the list has one entry
C18_Witness ==
    /\ TokenChangesReturned /\ tx.hasMeta
    /\ AccountsOf(tx.postTokenBalances, Wallet, MintM) = 2
    /\ \A k \in 1..2 : /\ ChangedPost(tx.preTokenBalances, tx.postTokenBalances[k])
                       /\ Appeared(tx.preTokenBalances, tx.postTokenBalances[k])
    /\ Len(out.changes) = 1 /\ out.changes[1].owner = Wallet

\* C19: parseTokenBalanceChanges emits an entry for an (owner, mint) pair only
\* if the pair's actual |post - pre| exceeds 1e-6 UI units, and every emitted
\* entry's change equals post - pre; so a transaction without token balances,
\* or with pre = post for every pair, yields the empty list.
C19_EntryOnlyForActualChange ==
    TokenChangesReturned =>
        \A i \in 1..Len(out.changes) :
            With(TokenDelta(tx, out.changes[i].owner, out.changes[i].mint), LAMBDA delta :
                Abs(delta) > TokenDust /\ out.changes[i].change = delta)

\* every pair has at most one token account in each balance array
OneAccountPerPair(t) ==
    \A o \in Owners, m \in Mints :
        AccountsOf(t.preTokenBalances, o, m) <= 1 /\ AccountsOf(t.postTokenBalances, o, m) <= 1

\* the same for the transactions with one token account per pair (amounts in
\* whole micro units)
EntryOnlyForActualChangeOneAccount ==
    OneAccountPerPair(tx) => C19_EntryOnlyForActualChange

\* an extractor has returned or thrown
Extracted == call.fn \in {"parseTokenBalanceChanges", "parseSOLBalanceChanges"}

\* a balance array the extractor reads is absent: no meta, no message, or
\* postBalances without preBalances
BalancesAbsent(t) ==
    \/ ~t.hasMeta
    \/ call.fn = "parseSOLBalanceChanges"
         /\ (~t.hasMessage \/ (t.hasPostBalances /\ ~t.hasPreBalances))

\* C20: the balance-change extractors never throw; for a transaction with
\* absent or malformed balance arrays (missing meta, missing preBalances
\* while postBalances is present, missing message, missing token balance
\* arrays) they return an empty list.
C20_ExtractorsNeverThrow ==
    Extracted =>
        /\ out # Throw
        /\ BalancesAbsent(tx) => out.changes = <<>>

\* parseTokenBalanceChanges alone never throws, and returns the empty list
\* when the meta is missing
TokenExtractorNeverThrows ==
    TokenChangesReturned =>
        /\ out # Throw
        /\ ~tx.hasMeta => out.changes = <<>>

(***************************************************************************)
(* The order of the strategies                                             *)
(***************************************************************************)
\* the DEXes parseTrade has a specialized parser for
SpecializedDEXs == {"raydium", "orca", "pump_fun"}

\* identifyDEX resolves tx to a DEX with a specialized parser
ResolvesToSpecialized(t) == ~IdentifyDEXThrows(t) /\ IdentifyDEX(t) \in SpecializedDEXs

\* the specialized parser of tx's DEX returns nothing or throws, while the
\* generic heuristic has an outcome for tx
OnlyGenericHasOutcome(t) ==
    /\ t.hasMeta /\ ResolvesToSpecialized(t)
    /\ ParseByDex(t, IdentifyDEX(t)).kind # "outcome"
    /\ ParseGenericTransaction(t, "unknown").kind = "outcome"

\* C21: when the DEX resolves to one with a specialized parser (raydium,
\* orca, pump_fun) and that parser returns nothing or throws, classification
\* goes on to the generic heuristic: the result is null only when the generic
\* heuristic too has no outcome.
C21_GenericAfterSpecialized ==
    (Called /\ NoApiResult /\ OnlyGenericHasOutcome(tx)) => out.kind = "outcome"

\* what the code does instead: the specialized parser's answer is final
SpecializedIsFinal ==
    (call.fn = "parseTrade" /\ NoApiResult /\ ResolvesToSpecialized(tx)
        /\ ParseByDex(tx, IdentifyDEX(tx)).kind # "outcome") => out = Null

\* parseSOLBalanceChanges has returned its list for tx
SolChangesReturned == call.fn = "parseSOLBalanceChanges" /\ out # Throw

\* C22: parseSOLBalanceChanges emits a native delta for an account only if
\* |postLamports - preLamports| > 100,000 lamports; a change of 100,000
\* lamports or less produces no entry.
C22_NativeDeltaAboveThreshold ==
    SolChangesReturned =>
        \A i \in 1..Len(out.changes) : Abs(out.changes[i].change) > SmallChange

\* what the code does: an entry for every account whose balance differs at all
NativeDeltaWhenDifferent ==
    SolChangesReturned =>
        /\ \A i \in 1..Len(out.changes) : out.changes[i].change # 0
        /\ (tx.hasMeta /\ tx.hasPostBalances) =>
           Len(out.changes) =
             Cardinality({ i \in 1..Len(tx.postBalances) :
                             tx.postBalances[i] # tx.preBalances[i] })

\* the signer flag the claim gives the account at a (0-based) index
ClaimedSigner(t, index) ==
    IF index < Len(t.accountKeys)
    THEN IF /\ t.accountKeys[index + 1].isObject
            /\ t.accountKeys[index + 1].signer # "undefined"
         THEN t.accountKeys[index + 1].signer = "true"
         ELSE index < t.numRequiredSignatures
    ELSE IF index - Len(t.accountKeys) < Len(t.loadedAddresses) THEN FALSE
    ELSE index < t.numRequiredSignatures

\* the (0-based) indexes of the accounts an entry's address may stand for
IndexesOf(t, account) ==
    { i \in 0..(Len(t.postBalances) - 1) : AddressAt(t, i) = account /\ SolChanged(t, i + 1) }

\* C23: an emitted entry's signer flag is the account entry's own signer flag
\* when the entry carries one; otherwise true exactly when the account's
\* index is below numRequiredSignatures; and always false for an address that
\* comes from the loaded addresses appended after the account list, for
\* every header value.
C23_SignerFlag ==
    SolChangesReturned =>
        \A i \in 1..Len(out.changes) :
            \E index \in IndexesOf(tx, out.changes[i].account) :
                out.changes[i].isSigner = ClaimedSigner(tx, index)

\* the same for the headers that count no more signers than the account list
\* has keys
SignerFlagWithinKeys ==
    tx.numRequiredSignatures <= Len(tx.accountKeys) => C23_SignerFlag

(***************************************************************************)
(* The generic heuristic's representative pair                             *)
(***************************************************************************)
\* classification of tx reaches parseGenericTransaction
ReachesGeneric(t) ==
    /\ WellFormed(t) /\ IdentifyDEX(t) \notin SpecializedDEXs
    /\ ~IsLiquidityOperation(t)

\* the significant negative / positive changes parseGenericTransaction sees
SoldChanges(t) ==
    SelectSeq(SignificantChanges(ParseTokenBalanceChanges(t), ParseSOLBalanceChanges(t)),
              LAMBDA item : item.amount < 0)
BoughtChanges(t) ==
    SelectSeq(SignificantChanges(ParseTokenBalanceChanges(t), ParseSOLBalanceChanges(t)),
              LAMBDA item : item.amount > 0)

\* the generic heuristic is left with several negative and positive changes:
\* no token-to-token swap, no SOL-token trade, not exactly one change a side
SeveralChanges(t) ==
    /\ ReachesGeneric(t)
    /\ GenericSwap(ParseTokenBalanceChanges(t), ParseSOLBalanceChanges(t), "unknown",
                   "null") = Null
    /\ AnalyzeSOLTokenTrade(ParseTokenBalanceChanges(t), ParseSOLBalanceChanges(t)) = Null
    /\ SoldChanges(t) # <<>> /\ BoughtChanges(t) # <<>>
    /\ ~(Len(SoldChanges(t)) = 1 /\ Len(BoughtChanges(t)) = 1)

\* the largest-magnitude negative and positive change
LargestSold(t) == MaxBy(SoldChanges(t), LAMBDA item : Abs(item.amount))
LargestBought(t) == MaxBy(BoughtChanges(t), LAMBDA item : Abs(item.amount))

\* one of the representative pair is the native asset, the other a token
NativeAndToken(t) ==
    \/ /\ LargestSold(t).type = "sol"
       /\ LargestBought(t).type = "token" /\ LargestBought(t).mint # SOL_MINT
    \/ /\ LargestSold(t).type = "token" /\ LargestSold(t).mint # SOL_MINT
       /\ LargestBought(t).type = "sol"

\* C25: when the generic heuristic finds several negative and several
\* positive significant deltas and no earlier rule applies, it takes the
\* largest-magnitude negative and the largest-magnitude positive delta as the
\* representative pair, classifies it by the buy/sell/swap rules and tags the
\* outcome with the multiple-changes note; when one of the pair is the native
\* asset and the other a token, the outcome is non-null.
C25_RepresentativePair ==
    (Called /\ NoApiResult /\ SeveralChanges(tx) /\ NativeAndToken(tx)) =>
        /\ out.kind = "outcome" /\ out.note = "multiple changes"
        /\ out.type = InferTradeType(LargestSold(tx).mint, LargestBought(tx).mint)
        /\ out.soldToken.mint = LargestSold(tx).mint
        /\ out.soldToken.amount = Abs(LargestSold(tx).amount)
        /\ out.boughtToken.mint = LargestBought(tx).mint
        /\ out.boughtToken.amount = LargestBought(tx).amount

\* what the code does: with several changes a side the generic heuristic has
\* no outcome at all
SeveralChangesGiveNull ==
    (call.fn = "parseTrade" /\ NoApiResult /\ SeveralChanges(tx)) => out = Null

(***************************************************************************)
(* The acting wallet of a generic outcome                                  *)
(***************************************************************************)
\* the outcome comes from the generic heuristic
FromGeneric ==
    /\ Called /\ WellFormed(tx) /\ out.kind = "outcome"
    /\ out.source \in {"generic_parser", "jupiter_transaction"}

\* the signers of the transaction
SignerSet(t) ==
    { AddressAt(t, i) : i \in { j \in 0..(Len(AllAccountKeys(t)) - 1) : IsSignerAt(t, j) } }

\* the owners of a token delta
TokenDeltaOwners(t) == { o \in Owners : \E m \in Mints : TokenDelta(t, o, m) # 0 }

\* the accounts with the largest-magnitude native delta
LargestNativeDelta(t) ==
    { a \in Owners : \A b \in Owners : Abs(NativeDelta(t, b)) <= Abs(NativeDelta(t, a)) }

\* the accounts the claim allows as the acting wallet
ActingWallets(t) ==
    IF SignerSet(t) \cap TokenDeltaOwners(t) # {} THEN SignerSet(t) \cap TokenDeltaOwners(t)
    ELSE IF SignerSet(t) # {} THEN SignerSet(t)
    ELSE LargestNativeDelta(t)

\* C24: the holderAddress of a buy, sell or swap outcome from the generic
\* heuristic is an account that is both a signer and the owner of a token
\* delta; else a signer; else the account with the largest-magnitude native
\* delta.  A non-signer is never chosen while the transaction has a signer.
C24_ActingWallet == FromGeneric => out.holderAddress \in ActingWallets(tx)

\* the last sentence alone: with a signer, the holder is a signer
HolderIsSigner ==
    (FromGeneric /\ SignerSet(tx) # {}) => out.holderAddress \in SignerSet(tx)

(***************************************************************************)
(* The orientation of price                                                *)
(***************************************************************************)
\* price is native units per token: sold / bought for a buy, bought / sold
\* for a sell
NativePerToken(o) ==
    /\ o.type = "buy" => o.price = Num(o.soldToken.amount, o.boughtToken.amount)
    /\ o.type = "sell" => o.price = Num(o.boughtToken.amount, o.soldToken.amount)

\* C27: the orientation of price is the same on every path: every outcome of
\* type buy has price = soldToken.amount / boughtToken.amount and every
\* outcome of type sell has price = boughtToken.amount / soldToken.amount,
\* including the outcomes flipped by the Pump.fun log text and those of the
\* generic single-pair and representative-pair branches.
C27_PriceOrientation ==
    (Called /\ out.kind = "outcome") => NativePerToken(out)

\* the same for the outcomes computed from the transaction with different
\* sold and bought amounts, the external API's price left aside
PriceOrientationParsed ==
    ( /\ Called /\ out.kind = "outcome" /\ out.source # "jupiter_api"
      /\ out.soldToken.amount # out.boughtToken.amount ) => NativePerToken(out)

\* the outcomes of analyzeSOLTokenTrade that no log text flips have the
\* orientation: those of the Raydium and Orca parsers
PriceOrientationUnflipped ==
    ( /\ Called /\ out.kind = "outcome"
      /\ out.source \in {"raydium_parser", "orca_parser"} ) => NativePerToken(out)

(***************************************************************************)
(* The specialized parser after an accepted answer of the external API     *)
(***************************************************************************)
\* parseTrade got an accepted result from the external API, tx resolves to
\* the DEX dex, and the parser of that DEX has an outcome for tx
ApiAndSpecialized(dex) ==
    /\ call.fn = "parseTrade" /\ ~NoApiResult
    /\ tx.hasMeta /\ ~IdentifyDEXThrows(tx) /\ IdentifyDEX(tx) = dex
    /\ ParseByDex(tx, dex).kind = "outcome"

\* the outcome returned is that of the parser of the DEX
ReturnsParsed(dex) ==
    /\ out.kind = "outcome"
    /\ out.source = ParseByDex(tx, dex).source
    /\ out.type = ParseByDex(tx, dex).type
    /\ out.soldToken = ParseByDex(tx, dex).soldToken
    /\ out.boughtToken = ParseByDex(tx, dex).boughtToken

\* C26: when the external API yields an accepted result and the DEX resolves
\* to one with a specialized parser (raydium, orca or pump_fun), parseTrade
\* runs that parser and, if it produces an outcome, returns the parser's
\* outcome instead of the API's.
C26_SpecializedOverridesApi ==
    \A dex \in SpecializedDEXs : ApiAndSpecialized(dex) => ReturnsParsed(dex)

\* the same for Pump.fun alone
PumpFunOverridesApi == ApiAndSpecialized("pump_fun") => ReturnsParsed("pump_fun")

\* for Raydium and Orca the API's result is returned
ApiOverRaydiumAndOrca ==
    \A dex \in {"raydium", "orca"} : ApiAndSpecialized(dex) => out.source = "jupiter_api"


(***************************************************************************)
(* Concurrent parseTrade calls on one cache.  A call runs from its start   *)
(* to `await Promise.all(promises)` without interruption, is suspended     *)
(* there, and runs from its resumption to its return without interruption. *)
(***************************************************************************)
\* how many calls of parseTrade are started in one behaviour
MaxConcurrent == 3

\* the signatures the concurrent calls ask for: one more than the cache can
\* hold, each with an outcome
ConcurrentSignatures == { s \in 1..(2 * MaxSize + 1) : s % 4 \in {1, 2} }

\* what the external API answers for a signature: a swap whose amount tells
\* the signatures apart
ApiAnswerFor(signature) ==
    [kind |-> "data", inputMint |-> MintM, outputMint |-> MintN,
     inputAmount |-> 5000, outputAmount |-> 1000000 * signature,
     price |-> "undefined", fee |-> "undefined"]

\* no concurrent call started yet
\* (overlapped: a call started while another was suspended)
NoCalls == [fn |-> "concurrent", calls |-> <<>>, overlapped |-> FALSE]

\* the cache holds the outcome of an earlier call for signature 1
ConcurrentInit ==
    /\ call = NoCalls
    /\ out = NoOutcome
    /\ cache \in EarlierCaches \ {<<>>}
    /\ now = 0
    /\ tx = NoTransaction
    /\ op = NoOp
    /\ inserted = <<>>
    /\ pureSets = TRUE
    /\ insertedAt = [k \in CacheKeys |-> -1]
    /\ expiredSeen = [k \in CacheKeys |-> FALSE]

\* a slip: the signature is kept where every call writes it, so a resumed call
\* stores its outcome under the signature of the call started last
SignatureOfLastCall(calls, id) == calls[Len(calls)].signature

\* the key a resumed call stores its outcome under: its own parameter
SignatureOf(calls, id) == calls[id].signature

\* parseTrade from its resumption to its return: what it returns for a
\* signature, given whether the fetch failed and whether the API answered
ClassifiedAs ==
    [signature \in ConcurrentSignatures |->
      [fetchFails \in BOOLEAN |->
        [answered \in BOOLEAN |->
          With(ParseTradeBody(signature,
                   IF fetchFails THEN NoTransaction ELSE TransactionOf(signature),
                   IF answered THEN ParseJupiterViaAPI(ApiAnswerFor(signature))
                   ELSE Null), LAMBDA body :
              IF body = Throw THEN Null ELSE body)]]]

\* a call of parseTrade(signature) starts: it returns from its cache check, or
\* starts the fetch (and the API call) and is suspended
ParseTradeStarts(signature) ==
    /\ Len(call.calls) < MaxConcurrent
    /\ cache' = CacheGetAfter(cache, signature, now)
    /\ LET cached == CacheGetValue(cache, signature, now)
           suspended == \E i \in 1..Len(call.calls) : call.calls[i].pc = "suspended"
       IN  /\ call' = [call EXCEPT
                  !.calls = Append(@,
                      [signature |-> signature,
                       pc |-> IF cached # Null THEN "returned" ELSE "suspended",
                       hit |-> cached # Null,
                       ret |-> IF cached # Null THEN cached ELSE NoOutcome]),
                  !.overlapped = @ \/ suspended]
    /\ UNCHANGED <<tx, now, op, inserted, pureSets, insertedAt, expiredSeen, out>>

\* the fetch and the API call of a suspended call have settled: the call
\* classifies, stores the outcome (caching is enabled) and returns
ParseTradeResumes(id, fetchFails, answered) ==
    /\ id \in 1..Len(call.calls)
    /\ call.calls[id].pc = "suspended"
    /\ LET ret == ClassifiedAs[call.calls[id].signature][fetchFails][answered]
       IN  /\ cache' = IF ret # Null
                       THEN CacheSetAfter(cache, SignatureOf(call.calls, id), ret, now)
                       ELSE cache
           /\ call' = [call EXCEPT !.calls[id].pc = "returned",
                                   !.calls[id].ret = ret]
    /\ UNCHANGED <<tx, now, op, inserted, pureSets, insertedAt, expiredSeen, out>>

\* Date.now() moves on while calls are suspended: by more than the time to
\* live at once, so that every entry stored before counts as expired
TimePasses ==
    /\ now + Ttl + 1 <= MaxClock
    /\ now' = now + Ttl + 1
    /\ UNCHANGED <<cache, call, tx, op, inserted, pureSets, insertedAt, expiredSeen, out>>

ConcurrentNext ==
    \/ \E signature \in ConcurrentSignatures : ParseTradeStarts(signature)
    \/ \E id \in 1..Len(call.calls), fetchFails \in BOOLEAN, answered \in BOOLEAN :
           ParseTradeResumes(id, fetchFails, answered)
    \/ TimePasses

SpecConcurrent == ConcurrentInit /\ [][ConcurrentNext]_vars

\* the outcomes parseTrade can classify for a signature
ClassifiedFor(signature) ==
    { ClassifiedAs[signature][FALSE][answered] : answered \in BOOLEAN } \ {Null}

\* C28: under any interleaving of concurrent parseTrade calls that share one
\* cache and are suspended only at the fetch and external-API calls, the cache
\* never holds more than its capacity, and a cache read for a signature
\* returns only an outcome that was classified for that signature.
C28_SharedCacheSafe ==
    /\ Len(cache) <= MaxSize
    /\ \A i \in 1..Len(cache) : cache[i].value \in ClassifiedFor(cache[i].key)
    /\ \A id \in 1..Len(call.calls) :
         call.calls[id].hit =>
             call.calls[id].ret \in ClassifiedFor(call.calls[id].signature)

\* calls overlapped, the outcome the cache held before them has been evicted
\* from the full cache (no time has passed), and a call was answered from the
\* cache with what an earlier one of the calls stored
C28_Witness ==
    /\ call.overlapped
    /\ now = 0
    /\ Len(cache) = MaxSize
    /\ \E id \in 1..Len(call.calls) :
         /\ call.calls[id].pc = "returned" /\ ~call.calls[id].hit
         /\ call.calls[id].ret # Null
    /\ \A i \in 1..Len(cache) : cache[i].key # 1
    /\ \E id \in 1..Len(call.calls) :
         /\ call.calls[id].hit
         /\ \E other \in 1..Len(call.calls) :
              /\ other < id /\ call.calls[other].signature = call.calls[id].signature
              /\ call.calls[other].pc = "returned" /\ ~call.calls[other].hit


(***************************************************************************)
(* parseMultipleTradeInfo when every fetch call returns or throws          *)
(***************************************************************************)
\* one turn of the loop, whatever getParsedTransactions does
LoopTurn ==
    \/ BulkFetchEmpty
    \/ BulkFetchReturns
    \/ \E fetchFails \in BOOLEAN, backwards \in BOOLEAN : BulkFetchThrows(fetchFails, backwards)

\* a further turn of a loop that has gone through MaxBatches turns and still
\* runs, on an empty batch: getParsedTransactions([]) returns no transaction
\* (continue) or throws (a fallback without a call), nothing is stored, and
\* i += batchSize.  The turns are no longer recorded and i, which only goes
\* down from here, is followed as far as -(MaxBatches + 1).
LoopSpins ==
    /\ call.fn = "parseMultipleTradeInfo" /\ call.status = "running"
    /\ call.i < Len(call.signatures)
    /\ Len(call.bulk) >= MaxBatches
    /\ CurrentBatch = <<>>
    /\ BatchSize(call.signatures, call.concurrency) <= 0
    /\ call' = [call EXCEPT
                  !.i = IF @ + BatchSize(call.signatures, call.concurrency)
                            >= -(MaxBatches + 1)
                        THEN @ + BatchSize(call.signatures, call.concurrency)
                        ELSE @]
    /\ UNCHANGED <<out, cache, tx, now, op, inserted, pureSets, insertedAt, expiredSeen>>

BatchNextFair ==
    \/ BatchNext
    \/ LoopSpins

\* every fetch call settles, so a turn that can be taken is taken, and the
\* function returns once the loop has ended
SpecBatchFair ==
    /\ BatchInit /\ [][BatchNextFair]_vars
    /\ WF_vars(LoopTurn \/ LoopSpins)
    /\ WF_vars(ReturnResults)

\* C29: parseMultipleTradeInfo terminates and returns its result map for
\* every finite signature list and every value of its batch-size
\* (concurrency) parameter, 0 and negative values included, provided each
\* fetch call eventually returns or throws.
C29_Terminates == <>(call.status # "running")

\* runs whose batch size is positive do return
PositiveBatchSizeTerminates ==
    <>( BatchSize(call.signatures, call.concurrency) > 0 => call.status # "running" )

\* a turn with a batch size that is not positive leaves i where it was or
\* moves it back, so the loop condition i < signatures.length holds again
NoProgressWithoutBatchSize ==
    [][ ( /\ call.status = "running" /\ call'.status = "running"
          /\ BatchSize(call.signatures, call.concurrency) <= 0 ) =>
            /\ call'.i <= call.i
            /\ call'.i < Len(call'.signatures) ]_vars

\* only runs whose batch size is not positive are still in the loop after
\* MaxBatches turns, and their batches are empty from then on
OnlySpinningRunsGoOn ==
    ( /\ call.status = "running" /\ call.i < Len(call.signatures)
      /\ Len(call.bulk) >= MaxBatches ) =>
        /\ BatchSize(call.signatures, call.concurrency) <= 0
        /\ CurrentBatch = <<>>


(***************************************************************************)
(* The bulk path and the per-signature fallback on the same transaction    *)
(***************************************************************************)
\* result.holderAddress, undefined for an object built without that property
HolderOf(result) ==
    IF "holderAddress" \in DOMAIN result THEN result.holderAddress ELSE "undefined"

\* results.get(signature), Null when the map has no such key
ResultFor(results, signature) ==
    IF CacheHas(results, signature) THEN CacheItem(results, signature).value ELSE Null

\* what the bulk path puts into the result map for a signature (Null: nothing)
BulkOutcome(signature) ==
    With(ParseTradeFromTransactionSync(signature, TransactionOf(signature)),
         LAMBDA tradeInfo : IF tradeInfo = Throw THEN Null ELSE tradeInfo)

\* the signatures the fallback has gone through with its fetch answered and
\* without a hit in the cache
ThroughFallback ==
    IF call.fetches = Len(call.individual)
    THEN { call.individual[k] : k \in 1..Len(call.individual) } \ call.unfetched
    ELSE {}

\* two entries of the result map agree in all but the holder
SameButHolder(a, b) ==
    \/ a = Null /\ b = Null
    \/ /\ a # Null /\ b # Null
       /\ a.type = b.type /\ a.dex = b.dex /\ a.source = b.source
       /\ a.soldToken = b.soldToken /\ a.boughtToken = b.boughtToken
       /\ a.price = b.price /\ a.fee = b.fee

\* C30: for the same signature and transaction, the bulk path
\* (parseTradeFromTransactionSync) and the per-signature fallback
\* (parseTradeInfoInternal, with an empty cache) put the same outcome into the
\* result map: the same type, dex, source, soldToken, boughtToken, price, fee
\* and holderAddress.
C30_PathsAgree ==
    call.fn = "parseMultipleTradeInfo" =>
        \A signature \in ThroughFallback :
            LET a == ResultFor(out, signature)
                b == BulkOutcome(signature)
            IN  /\ SameButHolder(a, b)
                /\ a # Null => HolderOf(a) = HolderOf(b)

\* the two paths agree in type, dex, source, soldToken, boughtToken, price and
\* fee
PathsAgreeButHolder ==
    call.fn = "parseMultipleTradeInfo" =>
        \A signature \in ThroughFallback :
            SameButHolder(ResultFor(out, signature), BulkOutcome(signature))

\* the fallback's entries never carry a holder
FallbackWithoutHolder ==
    call.fn = "parseMultipleTradeInfo" =>
        \A signature \in ThroughFallback :
            ResultFor(out, signature) # Null =>
                HolderOf(ResultFor(out, signature)) = "undefined"

====
